---- MODULE Spec2Model ----
(***************************************************************************)
(* Ledger consistency engine of minhas-financas-backend: wallets with a    *)
(* cached balance, entries (transactions) that are paid or pending,        *)
(* recurrence / installment groups, transfers between wallets, the         *)
(* management of wallets and the password reset.                           *)
(*                                                                         *)
(* Every handler is one action: the reads it does before opening its       *)
(* Prisma transaction, then the writes of the transaction body, which      *)
(* commit together or roll back together.                                  *)
(*                                                                         *)
(* Money: an amount is a JavaScript number, a double.  Amounts are counted *)
(* in whole steps of the smallest positive double, which is how doubles    *)
(* are spaced next to zero; sums and differences of such amounts are       *)
(* exact.  The code divides an installment total by the count: the         *)
(* amounts the requests carry are multiples of Unit, a common multiple of  *)
(* every installment count, which divide exactly, except in SpecAmounts,   *)
(* where an amount of one step is sent and the quotient is rounded as the  *)
(* division of doubles rounds it (installmentAmount).                      *)
(***************************************************************************)
EXTENDS Integers, Sequences, FiniteSets, TLC

\* ------------------------------------------------------------------ bounds
\* entries ever created (ids are never reused)
MaxIds == 2
\* transfers ever created
MaxTransfers == 1
\* request amounts are Unit, 2*Unit, ..., MaxAmount*Unit
MaxAmount == 2
\* largest installment count a request asks for
MaxInstallments == 2
\* occurrences of a recurring series kept by the model (the code: maxOccurrences)
SeriesCap == 2
\* requests handled in one behaviour of Spec
MaxSteps == 2
\* requests handled in one behaviour of SpecSeries
MaxSeriesSteps == 3
\* entries created before the requests in flight of SpecRace begin
MaxSetup == 2
\* transfers ever created in SpecRace
MaxRaceTransfers == 2
\* the start dates of SpecDates lie in the years FirstYear .. FirstYear + YearSpan
YearSpan == 1
\* entries ever created in SpecCreate
MaxCreateIds == 4
\* largest installment count a request of SpecCreate asks for
MaxCreateInstallments == 3
\* requests handled in one behaviour of SpecCreate
MaxCreateSteps == 2
\* requests handled in one behaviour of SpecAmounts
MaxAmountSteps == 2
\* requests handled in one behaviour of SpecWallet
MaxWalletSteps == 2
\* entries created before the requests of SpecDelete begin
MaxPaidSetup == 2
\* transfers ever created in SpecTransfers
MaxLedgerTransfers == 2
\* requests handled in one behaviour of SpecTransfers
MaxTransferSteps == 3
\* reset tokens ever issued in SpecReset
MaxTokens == 2
\* the last hour of SpecReset
MaxHours == 3

\* --------------------------------------------------------------- constants
maxOccurrences == 36

RECURSIVE Gcd(_, _)
Gcd(a, b) == IF b = 0 THEN a ELSE Gcd(b, a % b)

RECURSIVE LcmUpTo(_)
LcmUpTo(n) == IF n <= 1 THEN 1 ELSE LET l == LcmUpTo(n - 1) IN (l * n) \div Gcd(l, n)

Min(a, b) == IF a < b THEN a ELSE b

Max(a, b) == IF a < b THEN b ELSE a

Unit == LcmUpTo(Max(MaxInstallments, MaxCreateInstallments))

\* ---------------------------------------------------------------- fixtures
Users == {"u1", "u2"}
WalletIds == {"w1", "w2", "w3"}
CategoryIds == {"c1", "c2", "c3"}

\* the caller of the specifications with one caller
RaceUser == "u1"

WalletOwner == [w \in WalletIds |-> IF w = "w3" THEN "u2" ELSE "u1"]
OpeningBalance == [w \in WalletIds |-> IF w = "w1" THEN Unit ELSE 0]

\* the category rows at the start: owner, direction tag, active or not
CategoryRows == [c \in CategoryIds |->
                   CASE c = "c1" -> [userId |-> "u1", type |-> "INCOME", isActive |-> TRUE]
                     [] c = "c2" -> [userId |-> "u1", type |-> "EXPENSE", isActive |-> TRUE]
                     [] OTHER    -> [userId |-> "u2", type |-> "INCOME", isActive |-> TRUE]]

TransactionTypes == {"INCOME", "EXPENSE"}
RecurringTypes == {"WEEKLY", "MONTHLY", "YEARLY", "INDEFINITE"}
\* the kinds the requests below ask for (the ledger treats every kind alike)
RequestedRecurringTypes == {"MONTHLY"}
NoType == "NONE"
\* a null group id (ids start at 1)
NoGroup == 0
\* a null or absent date; dates are day numbers
NoDate == 0
\* a date string that new Date() cannot parse
InvalidDate == 0 - 1
\* the payment dates a request supplies
RequestDates == {1}
\* a null notes column
NoNotes == "NONE"

Amounts == {k * Unit : k \in 1..MaxAmount}

VARIABLES
  wallets,        \* wallet id -> [userId, name, balance, isActive]
  entries,        \* entry id  -> transaction row
  transfers,      \* transfer id -> transfer row
  categories,     \* category id -> category row
  nextId,         \* next fresh entry id
  nextTransferId, \* next fresh transfer id
  steps,          \* requests handled so far
  last,           \* the last request handled: what was asked, the answer, the rows before it
  procs,          \* requests in flight: what each has read and how it was answered
  started,        \* the rows stored when the first request in flight began
  gen,            \* generateRecurringDates: its arguments and its locals
  users,          \* user id -> [password]
  passwordResetTokens, \* token id -> [id, token, userId, expiresAt, usedAt]
  nextTokenId,    \* next fresh token id
  clock           \* the hour it is

vars == <<wallets, entries, transfers, categories, nextId, nextTransferId, steps, last, procs,
          started, gen, users, passwordResetTokens, nextTokenId, clock>>

\* the tables and the clock of the password reset, which the ledger never touches
authVars == <<users, passwordResetTokens, nextTokenId, clock>>

\* new Date(): the clock moves with every request and is past every supplied date
Now == Cardinality(RequestDates) + 1 + steps

\* ----------------------------------------------------------- request shapes
Has(d, f) == f \in DOMAIN d

Opt(name, vals) == {<<>>} \cup {name :> v : v \in vals}

NoData == <<>>

\* the fields of updateTransactionSchema that touch the ledger: every combination
\* of isPaid, amount (the smallest or the largest) and walletId, and a categoryId
\* sent alone
UpdateData ==
       {a @@ b @@ c :
          a \in Opt("isPaid", BOOLEAN), b \in Opt("amount", {Unit, MaxAmount * Unit}),
          c \in Opt("walletId", WalletIds)}
  \cup {"categoryId" :> c : c \in CategoryIds}

\* isRecurring / recurringType / isInstallment / installments of createTransactionSchema
Series(isRecurring, recurringType, isInstallment, installments) ==
  [isRecurring |-> isRecurring, recurringType |-> recurringType,
   isInstallment |-> isInstallment, installments |-> installments]

Single == Series(FALSE, NoType, FALSE, 0)

\* the series a request can ask for
GoodSeries ==
       {Series(TRUE, t, FALSE, 0) : t \in RequestedRecurringTypes}
  \cup {Series(FALSE, NoType, TRUE, n) : n \in 1..MaxInstallments}

\* the combinations createTransaction refuses
BadSeries ==
  {Series(TRUE, NoType, FALSE, 0), Series(FALSE, NoType, TRUE, 0),
   Series(TRUE, "MONTHLY", TRUE, 1)}

\* ------------------------------------------------------------------ dates
\* Dates are calendar dates in the server's time zone: year, month (0 = January,
\* as in Date) and day of the month; the time of day never changes.
FirstYear == 2023
StartDays == {1, 15, 28, 29, 30, 31}

isLeapYear(y) == (y % 4 = 0 /\ y % 100 # 0) \/ y % 400 = 0

daysInMonth(y, m) ==
  IF m = 1 THEN (IF isLeapYear(y) THEN 29 ELSE 28)
  ELSE IF m \in {3, 5, 8, 10} THEN 30 ELSE 31

\* the date a Date holds after its month or its day was set past the end:
\* months past December go to the next year, days past the end of the month to
\* the next month
RECURSIVE rollover(_, _, _)
rollover(y, m, d) ==
  IF m > 11 THEN rollover(y + 1, m - 12, d)
  ELSE IF d > daysInMonth(y, m) THEN rollover(y, m + 1, d - daysInMonth(y, m))
  ELSE [y |-> y, m |-> m, d |-> d]

\* getNextRecurringDate keeping the day inside the next month
getNextRecurringDateClamped(currentDate, recurringType) ==
  LET y == currentDate.y
      m == currentDate.m
      d == currentDate.d
      ny == IF m = 11 THEN y + 1 ELSE y
      nm == IF m = 11 THEN 0 ELSE m + 1
  IN CASE recurringType = "WEEKLY" -> rollover(y, m, d + 7)
       [] recurringType \in {"MONTHLY", "INDEFINITE"} ->
            [y |-> ny, m |-> nm, d |-> Min(d, daysInMonth(ny, nm))]
       [] recurringType = "YEARLY" -> [y |-> y + 1, m |-> m, d |-> Min(d, daysInMonth(y + 1, m))]
       [] OTHER -> currentDate

getNextRecurringDate(currentDate, recurringType) ==
  LET y == currentDate.y
      m == currentDate.m
      d == currentDate.d
  IN CASE recurringType = "WEEKLY" -> rollover(y, m, d + 7)
       [] recurringType = "MONTHLY" -> rollover(y, m + 1, d)
       [] recurringType = "YEARLY" -> rollover(y + 1, m, d)
       [] recurringType = "INDEFINITE" -> rollover(y, m + 1, d)
       [] OTHER -> currentDate

\* generateRecurringDates(startDate, recurringType): its first n dates, each
\* pushed before the current date is advanced
RECURSIVE generateRecurringDates(_, _, _)
generateRecurringDates(currentDate, recurringType, n) ==
  IF n = 0 THEN <<>>
  ELSE <<currentDate>>
       \o generateRecurringDates(getNextRecurringDate(currentDate, recurringType),
                                 recurringType, n - 1)

\* generateInstallmentDates adding i months to the start date for the i-th push
generateInstallmentDatesFromStart(currentDate, installments) ==
  [i \in 1..installments |-> rollover(currentDate.y, currentDate.m + i - 1, currentDate.d)]

\* generateInstallmentDates(startDate, installments): one Date, pushed and then
\* moved by setMonth(getMonth() + 1), installments times
RECURSIVE generateInstallmentDates(_, _)
generateInstallmentDates(currentDate, installments) ==
  IF installments = 0 THEN <<>>
  ELSE <<currentDate>>
       \o generateInstallmentDates(rollover(currentDate.y, currentDate.m + 1, currentDate.d),
                                   installments - 1)

\* ------------------------------------------------------------------- store
Db == [wallets |-> wallets, entries |-> entries, transfers |-> transfers,
       categories |-> categories]

balanceChange(type, amount) == IF type = "INCOME" THEN amount ELSE -amount

\* findFirst({ where: { id } }): the row whoever owns it
findTransactionOfAnyone(db, id, userId) ==
  IF id \in DOMAIN db.entries THEN {db.entries[id]} ELSE {}

\* prisma.transaction.findFirst({ where: { id, userId } })
findTransaction(db, id, userId) ==
  IF id \in DOMAIN db.entries /\ db.entries[id].userId = userId THEN {db.entries[id]} ELSE {}

\* prisma.wallet.findFirst({ where: { id, userId } })
findWallet(db, id, userId) ==
  IF id \in DOMAIN db.wallets /\ db.wallets[id].userId = userId THEN {db.wallets[id]} ELSE {}

\* prisma.category.findFirst({ where: { id, userId } })
findCategory(db, id, userId) ==
  IF id \in DOMAIN db.categories /\ db.categories[id].userId = userId
  THEN {db.categories[id]} ELSE {}

\* rows matched by a where-condition { userId, <groupField>: gid }
whereGroup(db, field, gid, userId) ==
  {i \in DOMAIN db.entries : db.entries[i].userId = userId /\ db.entries[i][field] = gid}

\* a row after Prisma applied the data of an update to it
applyData(row, data) == [f \in DOMAIN row |-> IF Has(data, f) THEN data[f] ELSE row[f]]

Without(f, ids) == [i \in DOMAIN f \ ids |-> f[i]]

\* FOREIGN KEY ("categoryId") REFERENCES "categories" ("id"), and the same for
\* the wallet: the row (or the data of an update) names rows that are stored
references(db, row) ==
  /\ Has(row, "categoryId") => row.categoryId \in DOMAIN db.categories
  /\ Has(row, "walletId") => row.walletId \in DOMAIN db.wallets

\* a store that lets a referenced category go
restrictNever(db, id) == TRUE

\* ON DELETE RESTRICT: a category goes only while no entry names it
restrict(db, id) == \A i \in DOMAIN db.entries : db.entries[i].categoryId # id

\* one write of a transaction body; ok = FALSE when Prisma throws
applyWrite(db, w) ==
  CASE w.op = "wallet.update" ->
         IF w.id \in DOMAIN db.wallets
         THEN [ok |-> TRUE,
               db |-> IF Has(w, "increment")
                      THEN [db EXCEPT !.wallets[w.id].balance = @ + w.increment]
                      ELSE [db EXCEPT !.wallets[w.id] = applyData(@, w.data)]]
         ELSE [ok |-> FALSE, db |-> db]
    [] w.op = "transaction.create" ->
         IF references(db, w.row)
         THEN [ok |-> TRUE, db |-> [db EXCEPT !.entries = (w.row.id :> w.row) @@ @]]
         ELSE [ok |-> FALSE, db |-> db]
    [] w.op = "transaction.update" ->
         IF w.id \in DOMAIN db.entries
            /\ ~(Has(w.data, "paymentDate") /\ w.data.paymentDate = InvalidDate)
            /\ references(db, w.data)
         THEN [ok |-> TRUE, db |-> [db EXCEPT !.entries[w.id] = applyData(@, w.data)]]
         ELSE [ok |-> FALSE, db |-> db]
    [] w.op = "transaction.updateMany" ->
         IF w.ids = {} \/ references(db, w.data)
         THEN [ok |-> TRUE,
               db |-> [db EXCEPT !.entries =
                         [i \in DOMAIN @ |->
                            IF i \in w.ids THEN applyData(@[i], w.data) ELSE @[i]]]]
         ELSE [ok |-> FALSE, db |-> db]
    [] w.op = "transaction.delete" ->
         IF w.id \in DOMAIN db.entries
         THEN [ok |-> TRUE, db |-> [db EXCEPT !.entries = Without(@, {w.id})]]
         ELSE [ok |-> FALSE, db |-> db]
    [] w.op = "transaction.deleteMany" ->
         [ok |-> TRUE, db |-> [db EXCEPT !.entries = Without(@, w.ids)]]
    [] w.op = "transfer.create" ->
         [ok |-> TRUE, db |-> [db EXCEPT !.transfers = (w.row.id :> w.row) @@ @]]
    [] w.op = "transfer.delete" ->
         IF w.id \in DOMAIN db.transfers
         THEN [ok |-> TRUE, db |-> [db EXCEPT !.transfers = Without(@, {w.id})]]
         ELSE [ok |-> FALSE, db |-> db]
    [] w.op = "category.update" ->
         IF w.id \in DOMAIN db.categories
         THEN [ok |-> TRUE, db |-> [db EXCEPT !.categories[w.id] = applyData(@, w.data)]]
         ELSE [ok |-> FALSE, db |-> db]
    [] w.op = "category.delete" ->
         IF w.id \in DOMAIN db.categories /\ restrict(db, w.id)
         THEN [ok |-> TRUE, db |-> [db EXCEPT !.categories = Without(@, {w.id})]]
         ELSE [ok |-> FALSE, db |-> db]

\* the writes of a body one after the other; the write numbered failAt fails
\* (a storage failure), as does any write Prisma rejects
RECURSIVE runWrites(_, _, _, _)
runWrites(db, writes, i, failAt) ==
  IF i > Len(writes) THEN [ok |-> TRUE, db |-> db]
  ELSE IF i = failAt THEN [ok |-> FALSE, db |-> db]
  ELSE LET r == applyWrite(db, writes[i])
       IN IF r.ok THEN runWrites(r.db, writes, i + 1, failAt) ELSE r

\* the same writes issued without a transaction: what was written before the
\* failure stays written
transactionNoRollback(db, writes, failAt) == runWrites(db, writes, 1, failAt)

\* prisma.$transaction(async (tx) => { ... }): all the writes, or none
transaction(db, writes, failAt) ==
  LET r == runWrites(db, writes, 1, failAt)
  IN IF r.ok THEN r ELSE [ok |-> FALSE, db |-> db]

NoPrior == <<>>

\* created: the ids of the rows the answer carries (the rows created, the rows
\* updated)
Answer(op, status, user, id, all, data, created, prior, failAt) ==
  [op |-> op, status |-> status, user |-> user, id |-> id, all |-> all, data |-> data,
   created |-> created, prior |-> prior, failAt |-> failAt, pre |-> Db]

\* one more request handled
Step == steps' = steps + 1

\* the model takes a further request
Open == steps < MaxSteps

\* the handler answered without opening a transaction
RejectData(op, status, user, id, data) ==
  /\ Step
  /\ last' = Answer(op, status, user, id, FALSE, data, {}, NoPrior, 0)
  /\ UNCHANGED <<wallets, entries, transfers, categories, nextId, nextTransferId,
                 procs, started, gen>>
  /\ UNCHANGED authVars

Reject(op, status, user, id) == RejectData(op, status, user, id, NoData)

\* the handler ran its transaction: committed (okStatus) or rolled back (500)
Commit(r, op, okStatus, user, id, all, data, created, prior, failAt) ==
  /\ Step
  /\ wallets' = r.db.wallets
  /\ entries' = r.db.entries
  /\ transfers' = r.db.transfers
  /\ categories' = r.db.categories
  /\ last' = IF r.ok THEN Answer(op, okStatus, user, id, all, data, created, prior, 0)
             ELSE Answer(op, 500, user, id, all, NoData, {}, NoPrior, failAt)
  /\ UNCHANGED <<procs, started, gen>>
  /\ UNCHANGED authVars

\* ------------------------------------------------------------ createEntry
\* the first group id there is, for every request
randomUUIDFixed == NoGroup + 1

\* crypto.randomUUID(): an id no row carries yet
randomUUID == nextId

\* the paid flag of a series member taken from the request
seriesPaidAsAsked(data) == data.isPaid

\* isPaid: false: the members of a series start unpaid whatever the request says
seriesPaid(data) == FALSE

\* `${data.description} (${i + 1}/${data.installments})`, i counted from 1 here
installmentDescription(description, i, installments) ==
  description \o " (" \o ToString(i) \o "/" \o ToString(installments) \o ")"

\* z.number().positive() of createTransactionSchema and updateTransactionSchema
positive(x) == x > 0

\* createTransactionSchema.parse(req.body) lets the body through
createTransactionSchema(data) == positive(data.amount)

\* updateTransactionSchema.parse(updateData) lets the body through
updateTransactionSchema(data) == Has(data, "amount") => positive(data.amount)

\* data.amount / data.installments. An amount is a double: next to zero the doubles
\* are the whole multiples of Number.MIN_VALUE, which is the step amounts are
\* counted in here, and a quotient that is no such multiple is rounded to the
\* nearest one, to the even one of two that are equally near.
installmentAmount(amount, installments) ==
  LET q == amount \div installments
      r == amount % installments
  IN IF 2 * r < installments THEN q
     ELSE IF 2 * r > installments THEN q + 1
     ELSE IF q % 2 = 0 THEN q ELSE q + 1

\* the rows a create request inserts, in order (ids and the group id are fresh)
createRows(userId, data) ==
  LET base == [userId |-> userId, walletId |-> data.walletId, categoryId |-> data.categoryId,
               type |-> data.type, description |-> data.description,
               dueDate |-> data.dueDate,
               notes |-> IF Has(data, "notes") THEN data.notes ELSE NoNotes,
               isRecurring |-> FALSE, recurringType |-> NoType,
               recurringGroupId |-> NoGroup, isInstallment |-> FALSE, installments |-> 0,
               currentInstallment |-> 0, installmentGroupId |-> NoGroup,
               paymentDate |-> NoDate]
      occurrences == Min(maxOccurrences, SeriesCap)
  IN IF data.isRecurring /\ data.recurringType # NoType
     THEN LET dates == generateRecurringDates(data.dueDate, data.recurringType, occurrences)
          IN [i \in 1..occurrences |->
                [id |-> nextId + i - 1, amount |-> data.amount, dueDate |-> dates[i],
                 isPaid |-> seriesPaid(data), isRecurring |-> TRUE,
                 recurringType |-> data.recurringType, recurringGroupId |-> randomUUID]
                @@ base]
     ELSE IF data.isInstallment /\ data.installments # 0
     THEN LET dates == generateInstallmentDates(data.dueDate, data.installments)
          IN [i \in 1..Len(dates) |->
                [id |-> nextId + i - 1,
                 description |-> installmentDescription(data.description, i, data.installments),
                 amount |-> installmentAmount(data.amount, data.installments),
                 dueDate |-> dates[i],
                 isPaid |-> seriesPaid(data), isInstallment |-> TRUE,
                 installments |-> data.installments, currentInstallment |-> i,
                 installmentGroupId |-> randomUUID] @@ base]
     ELSE <<[id |-> nextId, amount |-> data.amount, isPaid |-> data.isPaid,
             paymentDate |-> IF Has(data, "paymentDate") THEN data.paymentDate ELSE NoDate]
            @@ base>>

\* createWrites adding the amount of a paid entry whatever its direction
createWritesUnsigned(userId, data) ==
  LET rows == createRows(userId, data)
      single == ~(data.isRecurring /\ data.recurringType # NoType)
                /\ ~(data.isInstallment /\ data.installments # 0)
  IN [i \in 1..Len(rows) |-> [op |-> "transaction.create", row |-> rows[i]]]
     \o (IF single /\ data.isPaid
         THEN <<[op |-> "wallet.update", id |-> data.walletId, increment |-> data.amount]>>
         ELSE <<>>)

\* createWrites moving the balance for a singleton whether it is paid or not
createWritesAlways(userId, data) ==
  LET rows == createRows(userId, data)
      single == ~(data.isRecurring /\ data.recurringType # NoType)
                /\ ~(data.isInstallment /\ data.installments # 0)
  IN [i \in 1..Len(rows) |-> [op |-> "transaction.create", row |-> rows[i]]]
     \o (IF single
         THEN <<[op |-> "wallet.update", id |-> data.walletId,
                 increment |-> balanceChange(data.type, data.amount)]>>
         ELSE <<>>)

\* the body of createTransaction's prisma.$transaction
createWrites(userId, data) ==
  LET rows == createRows(userId, data)
      single == ~(data.isRecurring /\ data.recurringType # NoType)
                /\ ~(data.isInstallment /\ data.installments # 0)
  IN [i \in 1..Len(rows) |-> [op |-> "transaction.create", row |-> rows[i]]]
     \o (IF single /\ data.isPaid
         THEN <<[op |-> "wallet.update", id |-> data.walletId,
                 increment |-> balanceChange(data.type, data.amount)]>>
         ELSE <<>>)

OtherType(t) == IF t = "INCOME" THEN "EXPENSE" ELSE "INCOME"

\* the description and the due date of the requests that vary neither; no notes
Plain == [description |-> "rent", dueDate |-> [y |-> FirstYear, m |-> 0, d |-> 31]]

CreateRequest(w, c, t, a, p, s) ==
  [walletId |-> w, categoryId |-> c, type |-> t, amount |-> a, isPaid |-> p] @@ s @@ Plain

\* the create requests a caller sends: on its own wallet and category every amount,
\* paid or not, single or as a series (a series always asking for isPaid = true,
\* which the code ignores, with the smallest or the largest amount), plus one
\* request for each reason of refusal (SpecCreate sends them in every form)
CreateRequests(userId) ==
  LET Own == {wc \in WalletIds \X CategoryIds :
                WalletOwner[wc[1]] = userId /\ CategoryRows[wc[2]].userId = userId}
      own == CHOOSE wc \in Own : TRUE
      others == CHOOSE wc \in WalletIds \X CategoryIds :
                  WalletOwner[wc[1]] # userId /\ CategoryRows[wc[2]].userId # userId
  IN      {CreateRequest(wc[1], wc[2], CategoryRows[wc[2]].type, a, p, Single) :
             wc \in Own, a \in Amounts, p \in BOOLEAN}
     \cup {CreateRequest(wc[1], wc[2], CategoryRows[wc[2]].type, a, TRUE, s) :
             wc \in Own, a \in {Unit, MaxAmount * Unit}, s \in GoodSeries}
     \cup {CreateRequest(own[1], own[2], OtherType(CategoryRows[own[2]].type), Unit, TRUE, Single)}
     \cup {CreateRequest(own[1], own[2], CategoryRows[own[2]].type, Unit, TRUE, s) :
             s \in BadSeries}
     \cup {CreateRequest(others[1], own[2], CategoryRows[own[2]].type, Unit, TRUE, Single),
           CreateRequest(own[1], others[2], CategoryRows[others[2]].type, Unit, TRUE, Single)}

\* bothFlags letting every request through
bothFlagsNever(data) == FALSE

\* if (data.isRecurring && data.isInstallment) return 400
bothFlags(data) == data.isRecurring /\ data.isInstallment

\* createTransaction while the entries ever created stay within limit
createTransactionWithin(userId, data, limit) ==
  LET op == "createTransaction" IN
  IF ~createTransactionSchema(data) THEN RejectData(op, 400, userId, 0, data)
  ELSE IF findWallet(Db, data.walletId, userId) = {}
  THEN RejectData(op, 404, userId, 0, data)
  ELSE IF findCategory(Db, data.categoryId, userId) = {}
  THEN RejectData(op, 404, userId, 0, data)
  ELSE IF data.type # categories[data.categoryId].type
  THEN RejectData(op, 400, userId, 0, data)
  ELSE IF data.isRecurring /\ data.recurringType = NoType
  THEN RejectData(op, 400, userId, 0, data)
  ELSE IF data.isInstallment /\ data.installments = 0
  THEN RejectData(op, 400, userId, 0, data)
  ELSE IF bothFlags(data) THEN RejectData(op, 400, userId, 0, data)
  ELSE LET writes == createWrites(userId, data)
           n == Len(createRows(userId, data))
       IN /\ nextId + n - 1 <= limit
          /\ \E failAt \in 0..Len(writes) :
                LET r == transaction(Db, writes, failAt)
                IN /\ Commit(r, op, 201, userId, nextId, FALSE, data,
                             nextId..(nextId + n - 1), NoPrior, failAt)
                   /\ nextId' = IF r.ok THEN nextId + n ELSE nextId
          /\ UNCHANGED nextTransferId

createTransaction(userId, data) == createTransactionWithin(userId, data, MaxIds)

\* ------------------------------------------------------------ updateEntry
\* targetIds never widened to the group
targetIdsAlone(db, current, userId, all) == {current.id}

\* the entries the update (or delete) is aimed at: the whole group when asked
\* for and the entry has a group id, otherwise the entry alone
targetIds(db, current, userId, all) ==
  IF all /\ current.recurringGroupId # NoGroup
  THEN whereGroup(db, "recurringGroupId", current.recurringGroupId, userId)
  ELSE IF all /\ current.installmentGroupId # NoGroup
  THEN whereGroup(db, "installmentGroupId", current.installmentGroupId, userId)
  ELSE {current.id}

isGroupWide(current, all) ==
  all /\ (current.recurringGroupId # NoGroup \/ current.installmentGroupId # NoGroup)

\* updateBalanceWrites moving the balance whenever the request carries an isPaid,
\* the same as the stored flag or not
updateBalanceWritesWhenSent(current, data) ==
  IF Has(data, "isPaid")
  THEN LET amount == IF Has(data, "amount") THEN data.amount ELSE current.amount
           walletId == IF Has(data, "walletId") THEN data.walletId ELSE current.walletId
           type == current.type
           change == balanceChange(type, amount)
           increment == IF data.isPaid THEN change ELSE -change
       IN (IF current.isPaid /\ current.walletId # walletId
           THEN <<[op |-> "wallet.update", id |-> current.walletId,
                   increment |-> -balanceChange(type, current.amount)]>>
           ELSE <<>>)
          \o <<[op |-> "wallet.update", id |-> walletId, increment |-> increment]>>
  ELSE <<>>

\* updateBalanceWrites that never takes a contribution back: the increment keeps
\* the sign of a payment when the entry becomes unpaid
updateBalanceWritesNoReverse(current, data) ==
  IF Has(data, "isPaid") /\ data.isPaid # current.isPaid
  THEN LET amount == IF Has(data, "amount") THEN data.amount ELSE current.amount
           walletId == IF Has(data, "walletId") THEN data.walletId ELSE current.walletId
           type == current.type
           increment == balanceChange(type, amount)
       IN (IF current.isPaid /\ current.walletId # walletId
           THEN <<[op |-> "wallet.update", id |-> current.walletId,
                   increment |-> -balanceChange(type, current.amount)]>>
           ELSE <<>>)
          \o <<[op |-> "wallet.update", id |-> walletId, increment |-> increment]>>
  ELSE <<>>

\* updateBalanceWrites reading the amount from the stored entry only
updateBalanceWritesStoredAmount(current, data) ==
  IF Has(data, "isPaid") /\ data.isPaid # current.isPaid
  THEN LET amount == current.amount
           walletId == IF Has(data, "walletId") THEN data.walletId ELSE current.walletId
           type == current.type
           change == balanceChange(type, amount)
           increment == IF data.isPaid THEN change ELSE -change
       IN (IF current.isPaid /\ current.walletId # walletId
           THEN <<[op |-> "wallet.update", id |-> current.walletId,
                   increment |-> -balanceChange(type, current.amount)]>>
           ELSE <<>>)
          \o <<[op |-> "wallet.update", id |-> walletId, increment |-> increment]>>
  ELSE <<>>

\* the balance writes of updateTransaction: only when the request carries an
\* isPaid that differs from the stored flag of the entry named in the request
updateBalanceWrites(current, data) ==
  IF Has(data, "isPaid") /\ data.isPaid # current.isPaid
  THEN LET amount == IF Has(data, "amount") THEN data.amount ELSE current.amount
           walletId == IF Has(data, "walletId") THEN data.walletId ELSE current.walletId
           type == current.type
           change == balanceChange(type, amount)
           increment == IF data.isPaid THEN change ELSE -change
       IN (IF current.isPaid /\ current.walletId # walletId
           THEN <<[op |-> "wallet.update", id |-> current.walletId,
                   increment |-> -balanceChange(type, current.amount)]>>
           ELSE <<>>)
          \o <<[op |-> "wallet.update", id |-> walletId, increment |-> increment]>>
  ELSE <<>>

\* the rows updateTransaction answers with: the updated row, or after updateMany
\* what findMany finds under the same where-condition
updated(db, current, userId, all) == targetIds(db, current, userId, all)

\* the body of updateTransaction's prisma.$transaction
updateWrites(db, current, userId, data, all) ==
  updateBalanceWrites(current, data)
  \o (IF isGroupWide(current, all)
      THEN <<[op |-> "transaction.updateMany",
              ids |-> targetIds(db, current, userId, all), data |-> data]>>
      ELSE <<[op |-> "transaction.update", id |-> current.id, data |-> data]>>)

updateTransaction(userId, id, data, updateAll) ==
  LET op == "updateTransaction" IN
  IF ~updateTransactionSchema(data) THEN RejectData(op, 400, userId, id, data)
  ELSE IF findTransaction(Db, id, userId) = {} THEN Reject(op, 404, userId, id)
  ELSE IF \/ Has(data, "walletId") /\ findWallet(Db, data.walletId, userId) = {}
          \/ Has(data, "categoryId") /\ findCategory(Db, data.categoryId, userId) = {}
  THEN RejectData(op, 404, userId, id, data)
  ELSE LET current == entries[id]
           writes == updateWrites(Db, current, userId, data, updateAll)
       IN /\ \E failAt \in 0..Len(writes) :
                LET r == transaction(Db, writes, failAt)
                IN Commit(r, op, 200, userId, id, updateAll, data,
                          updated(r.db, current, userId, updateAll), NoPrior, failAt)
          /\ UNCHANGED <<nextId, nextTransferId>>

\* ------------------------------------------------------------ deleteEntry
\* deleteWrites removing the entry named alone with deleteMany, which finds
\* nothing to remove where delete finds no record and throws
deleteWritesMany(db, transaction0, userId, all) ==
  LET toDelete == IF isGroupWide(transaction0, all)
                  THEN {db.entries[i] : i \in targetIds(db, transaction0, userId, all)}
                  ELSE {transaction0}
      paid == {t \in toDelete : t.isPaid}
      RECURSIVE reversals(_)
      reversals(ts) ==
        IF ts = {} THEN <<>>
        ELSE LET t == CHOOSE x \in ts : \A y \in ts : x.id <= y.id
             IN <<[op |-> "wallet.update", id |-> t.walletId,
                   increment |-> IF t.type = "INCOME" THEN -t.amount ELSE t.amount]>>
                \o reversals(ts \ {t})
  IN reversals(paid)
     \o <<[op |-> "transaction.deleteMany",
           ids |-> IF isGroupWide(transaction0, all)
                   THEN targetIds(db, transaction0, userId, all) ELSE {transaction0.id}]>>

\* deleteWrites removing the rows without giving anything back to the wallets
deleteWritesNoReversal(db, transaction0, userId, all) ==
  IF isGroupWide(transaction0, all)
  THEN <<[op |-> "transaction.deleteMany",
          ids |-> targetIds(db, transaction0, userId, all)]>>
  ELSE <<[op |-> "transaction.delete", id |-> transaction0.id]>>

\* deleteWrites reversing only the entry named in the request, paid or not the
\* other members of its group
deleteWritesOnlyNamed(db, transaction0, userId, all) ==
  (IF transaction0.isPaid
   THEN <<[op |-> "wallet.update", id |-> transaction0.walletId,
           increment |-> IF transaction0.type = "INCOME" THEN -transaction0.amount
                         ELSE transaction0.amount]>>
   ELSE <<>>)
  \o (IF isGroupWide(transaction0, all)
      THEN <<[op |-> "transaction.deleteMany",
              ids |-> targetIds(db, transaction0, userId, all)]>>
      ELSE <<[op |-> "transaction.delete", id |-> transaction0.id]>>)

\* the body of deleteTransaction's prisma.$transaction
deleteWrites(db, transaction0, userId, all) ==
  LET toDelete == IF isGroupWide(transaction0, all)
                  THEN {db.entries[i] : i \in targetIds(db, transaction0, userId, all)}
                  ELSE {transaction0}
      paid == {t \in toDelete : t.isPaid}
      RECURSIVE reversals(_)
      reversals(ts) ==
        IF ts = {} THEN <<>>
        ELSE LET t == CHOOSE x \in ts : \A y \in ts : x.id <= y.id
             IN <<[op |-> "wallet.update", id |-> t.walletId,
                   increment |-> IF t.type = "INCOME" THEN -t.amount ELSE t.amount]>>
                \o reversals(ts \ {t})
  IN reversals(paid)
     \o (IF isGroupWide(transaction0, all)
         THEN <<[op |-> "transaction.deleteMany",
                 ids |-> targetIds(db, transaction0, userId, all)]>>
         ELSE <<[op |-> "transaction.delete", id |-> transaction0.id]>>)

deleteTransaction(userId, id, deleteAll) ==
  LET op == "deleteTransaction" IN
  IF findTransaction(Db, id, userId) = {} THEN Reject(op, 404, userId, id)
  ELSE LET t == entries[id]
           writes == deleteWrites(Db, t, userId, deleteAll)
           prior == IF last.op = "createTransaction" /\ last.status = 201
                       /\ last.created = {id}
                    THEN [w \in WalletIds |-> last.pre.wallets[w].balance]
                    ELSE NoPrior
       IN /\ \E failAt \in 0..Len(writes) :
                Commit(transaction(Db, writes, failAt), op, 204, userId, id,
                       deleteAll, NoData, {}, prior, failAt)
          /\ UNCHANGED <<nextId, nextTransferId>>

\* --------------------------------------------------------------- payEntry
\* payWrites stamping the current time whatever the request supplied
payWritesStampNow(t, paymentDate) ==
  <<[op |-> "wallet.update", id |-> t.walletId,
     increment |-> IF t.type = "INCOME" THEN t.amount ELSE -t.amount],
    [op |-> "transaction.update", id |-> t.id,
     data |-> [isPaid |-> TRUE, paymentDate |-> Now]]>>

\* the body of payTransaction's prisma.$transaction
payWrites(t, paymentDate) ==
  <<[op |-> "wallet.update", id |-> t.walletId,
     increment |-> IF t.type = "INCOME" THEN t.amount ELSE -t.amount],
    [op |-> "transaction.update", id |-> t.id,
     data |-> [isPaid |-> TRUE,
               paymentDate |-> IF paymentDate # NoDate THEN paymentDate ELSE Now]]>>

\* alreadyPaid letting every entry through
alreadyPaidNever(t) == FALSE

\* if (transaction.isPaid) return 400
alreadyPaid(t) == t.isPaid

\* what a pay request carries in its body
PayData(paymentDate) == IF paymentDate = NoDate THEN NoData ELSE "paymentDate" :> paymentDate

payTransaction(userId, id, paymentDate) ==
  LET op == "payTransaction" IN
  IF findTransaction(Db, id, userId) = {} THEN Reject(op, 404, userId, id)
  ELSE IF alreadyPaid(entries[id]) THEN RejectData(op, 400, userId, id, PayData(paymentDate))
  ELSE LET writes == payWrites(entries[id], paymentDate)
       IN /\ \E failAt \in 0..Len(writes) :
                Commit(transaction(Db, writes, failAt), op, 200, userId, id,
                       FALSE, PayData(paymentDate), {}, NoPrior, failAt)
          /\ UNCHANGED <<nextId, nextTransferId>>

\* -------------------------------------------------------------- transfers
\* the body of createTransfer's prisma.$transaction
createTransferWrites(userId, data) ==
  <<[op |-> "wallet.update", id |-> data.fromWalletId, increment |-> -data.amount],
    [op |-> "wallet.update", id |-> data.toWalletId, increment |-> data.amount],
    [op |-> "transfer.create",
     row |-> [id |-> nextTransferId, userId |-> userId, fromWalletId |-> data.fromWalletId,
              toWalletId |-> data.toWalletId, amount |-> data.amount]]>>

\* a wallet id no row has
MissingWallet == "w0"

\* every amount between every two wallets, and one request from and one to a
\* wallet that does not exist
TransferRequests ==
       [fromWalletId : WalletIds, toWalletId : WalletIds, amount : Amounts]
  \cup {[fromWalletId |-> MissingWallet, toWalletId |-> "w1", amount |-> Unit],
        [fromWalletId |-> "w1", toWalletId |-> MissingWallet, amount |-> Unit]}

\* insufficientBalance refusing only a source that holds nothing
insufficientBalanceOnlyEmpty(fromWallet, amount) == fromWallet.balance <= 0

\* insufficientBalance letting every amount through
insufficientBalanceNever(fromWallet, amount) == FALSE

\* if (fromWallet.balance < data.amount) return 400
insufficientBalance(fromWallet, amount) == fromWallet.balance < amount

createTransferWithin(userId, data, limit) ==
  LET op == "createTransfer" IN
  IF data.fromWalletId = data.toWalletId THEN RejectData(op, 400, userId, 0, data)
  ELSE IF findWallet(Db, data.fromWalletId, userId) = {}
  THEN RejectData(op, 404, userId, 0, data)
  ELSE IF findWallet(Db, data.toWalletId, userId) = {}
  THEN RejectData(op, 404, userId, 0, data)
  ELSE IF insufficientBalance(wallets[data.fromWalletId], data.amount)
  THEN RejectData(op, 400, userId, 0, data)
  ELSE LET writes == createTransferWrites(userId, data)
       IN /\ nextTransferId <= limit
          /\ \E failAt \in 0..Len(writes) :
                LET r == transaction(Db, writes, failAt)
                IN /\ Commit(r, op, 201, userId, nextTransferId, FALSE, data, {}, NoPrior, failAt)
                   /\ nextTransferId' = IF r.ok THEN nextTransferId + 1 ELSE nextTransferId
          /\ UNCHANGED nextId

createTransfer(userId, data) == createTransferWithin(userId, data, MaxTransfers)

\* deleteTransferWrites giving nothing back to the source wallet
deleteTransferWritesNoCredit(transfer) ==
  <<[op |-> "wallet.update", id |-> transfer.toWalletId, increment |-> -transfer.amount],
    [op |-> "transfer.delete", id |-> transfer.id]>>

\* the body of deleteTransfer's prisma.$transaction
deleteTransferWrites(transfer) ==
  <<[op |-> "wallet.update", id |-> transfer.fromWalletId, increment |-> transfer.amount],
    [op |-> "wallet.update", id |-> transfer.toWalletId, increment |-> -transfer.amount],
    [op |-> "transfer.delete", id |-> transfer.id]>>

deleteTransfer(userId, id) ==
  LET op == "deleteTransfer" IN
  IF ~(id \in DOMAIN transfers /\ transfers[id].userId = userId) THEN Reject(op, 404, userId, id)
  ELSE LET writes == deleteTransferWrites(transfers[id])
           prior == IF last.op = "createTransfer" /\ last.status = 201 /\ last.id = id
                    THEN [w \in WalletIds |-> last.pre.wallets[w].balance]
                    ELSE NoPrior
       IN /\ \E failAt \in 0..Len(writes) :
                Commit(transaction(Db, writes, failAt), op, 204, userId, id,
                       FALSE, NoData, {}, prior, failAt)
          /\ UNCHANGED <<nextId, nextTransferId>>

\* ---------------------------------------------------------------- wallets
\* the name every wallet is created with, and the name an update asks for
WalletName == "carteira"
NewWalletName == "reserva"

\* updateWalletSchema letting every key of the body through
updateWalletSchemaPassthrough(body) == body

\* updateWalletSchema.parse(req.body): name, description, color, icon and isActive
\* are read, every other key of the body is dropped
updateWalletSchema(body) ==
  [f \in DOMAIN body \cap {"name", "description", "color", "icon", "isActive"} |-> body[f]]

updateWallet(userId, id, body) ==
  LET op == "updateWallet"
      data == updateWalletSchema(body)
  IN IF findWallet(Db, id, userId) = {} THEN RejectData(op, 404, userId, id, body)
     ELSE LET writes == <<[op |-> "wallet.update", id |-> id, data |-> data]>>
          IN /\ \E failAt \in 0..Len(writes) :
                   Commit(transaction(Db, writes, failAt), op, 200, userId, id,
                          FALSE, body, {}, NoPrior, failAt)
             /\ UNCHANGED <<nextId, nextTransferId>>

\* hasBalance finding every wallet empty
hasBalanceNever(wallet) == FALSE

\* if (wallet.balance !== 0) return 400
hasBalance(wallet) == wallet.balance # 0

deleteWallet(userId, id) ==
  LET op == "deleteWallet" IN
  IF findWallet(Db, id, userId) = {} THEN Reject(op, 404, userId, id)
  ELSE IF hasBalance(wallets[id]) THEN Reject(op, 400, userId, id)
  ELSE LET writes == <<[op |-> "wallet.update", id |-> id, data |-> [isActive |-> FALSE]]>>
       IN /\ \E failAt \in 0..Len(writes) :
                Commit(transaction(Db, writes, failAt), op, 204, userId, id,
                       FALSE, NoData, {}, NoPrior, failAt)
          /\ UNCHANGED <<nextId, nextTransferId>>

\* ----------------------------------------------------------- password reset
\* the password every user registers with
OldPassword == "secret"

\* bcrypt.hash(password, 10)
hash(password) == <<"bcrypt", password>>

\* crypto.createHash('sha256').update(token).digest('hex')
createHash(token) == <<"sha256", token>>

\* expiresAt.setHours(expiresAt.getHours() + 1)
TokenLife == 1

\* no request in flight, no series being generated
Procs == {"p1", "p2"}
Idle == [pc |-> "idle"]
NoBase == <<>>
NoGen == <<>>

InitLedger ==
  /\ wallets = [w \in WalletIds |->
                  [userId |-> WalletOwner[w], name |-> WalletName,
                   balance |-> OpeningBalance[w], isActive |-> TRUE]]
  /\ entries = <<>>
  /\ transfers = <<>>
  /\ categories = CategoryRows
  /\ nextId = 1
  /\ nextTransferId = 1
  /\ steps = 0
  /\ last = [op |-> "none", status |-> 0, user |-> "u1", id |-> 0, all |-> FALSE,
             data |-> NoData, created |-> {}, prior |-> NoPrior, failAt |-> 0,
             pre |-> [wallets |-> wallets, entries |-> entries, transfers |-> transfers,
                      categories |-> categories]]
  /\ procs = [p \in Procs |-> Idle]
  /\ started = NoBase
  /\ users = [u \in Users |-> [password |-> hash(OldPassword)]]
  /\ passwordResetTokens = <<>>
  /\ nextTokenId = 1
  /\ clock = 1

Init == InitLedger /\ gen = NoGen

CreateEntry ==
  /\ Open
  /\ \E u \in Users : \E data \in CreateRequests(u) : createTransaction(u, data)

\* the values of updateAll / deleteAll worth sending for an entry: the flag is
\* read only when the entry has a group id
AllFlags(id) ==
  IF id \in DOMAIN entries /\ isGroupWide(entries[id], TRUE) THEN BOOLEAN ELSE {FALSE}

\* the update requests a caller sends: a wallet that is not the caller's is
\* answered 404 whatever else the request carries, so it is sent alone
UpdateRequests(userId) ==
  {data \in UpdateData :
     (Has(data, "walletId") /\ WalletOwner[data.walletId] # userId)
       => DOMAIN data = {"walletId"}}

\* A request for an entry the caller cannot see is answered 404 whatever else it
\* carries: one such request stands for all of them.
UpdateEntry ==
  /\ Open
  /\ \E u \in Users, id \in 1..MaxIds :
        IF findTransaction(Db, id, u) = {}
        THEN updateTransaction(u, id, NoData, FALSE)
        ELSE \E data \in UpdateRequests(u), all \in AllFlags(id) :
                updateTransaction(u, id, data, all)

DeleteEntry ==
  /\ Open
  /\ \E u \in Users, id \in 1..MaxIds :
        \E all \in AllFlags(id) : deleteTransaction(u, id, all)

\* (a request for an entry the caller cannot see: as in UpdateEntry)
PayEntry ==
  /\ Open
  /\ \E u \in Users, id \in 1..MaxIds :
        IF findTransaction(Db, id, u) = {}
        THEN payTransaction(u, id, NoDate)
        ELSE \E d \in {NoDate, InvalidDate} \cup RequestDates : payTransaction(u, id, d)

\* the transfer requests a caller sends: every amount between two different
\* wallets of its own, and the smallest amount for every pair of wallets that is
\* refused whatever the amount
TransferRequestsOf(userId) ==
  {data \in TransferRequests :
     \/ data.amount = Unit
     \/ /\ data.fromWalletId # data.toWalletId
        /\ findWallet(Db, data.fromWalletId, userId) # {}
        /\ findWallet(Db, data.toWalletId, userId) # {}}

CreateTransfer ==
  /\ Open
  /\ \E u \in Users : \E data \in TransferRequestsOf(u) : createTransfer(u, data)

DeleteTransfer ==
  /\ Open
  /\ \E u \in Users, id \in 1..MaxTransfers : deleteTransfer(u, id)

Next ==
  \/ CreateEntry
  \/ UpdateEntry
  \/ DeleteEntry
  \/ PayEntry
  \/ CreateTransfer
  \/ DeleteTransfer

Spec == Init /\ [][Next]_vars

\* ---------------------------------------------------------- life of a series
\* Longer behaviours of fewer requests: a series is created, members are paid or
\* moved to another wallet one at a time, entries are deleted alone or by group.
OpenSeries == steps < MaxSeriesSteps

SeriesRequests(userId) ==
  {data \in CreateRequests(userId) :
     /\ data.isRecurring # data.isInstallment
     /\ data.isRecurring => data.recurringType # NoType
     /\ data.isInstallment => data.installments # 0}

CreateSeries ==
  /\ OpenSeries
  /\ \E u \in Users : \E data \in SeriesRequests(u) : createTransaction(u, data)

PayMember ==
  /\ OpenSeries
  /\ \E u \in Users, id \in 1..MaxIds : payTransaction(u, id, NoDate)

MoveMember ==
  /\ OpenSeries
  /\ \E u \in Users, id \in 1..MaxIds, w \in WalletIds :
        updateTransaction(u, id, "walletId" :> w, FALSE)

DeleteMembers ==
  /\ OpenSeries
  /\ \E u \in Users, id \in 1..MaxIds, all \in BOOLEAN : deleteTransaction(u, id, all)

\* paid entries that belong to no series, next to which the series live
LoneRequests(userId) ==
  {data \in CreateRequests(userId) :
     /\ ~data.isRecurring /\ ~data.isInstallment
     /\ data.isPaid /\ data.amount = Unit
     /\ findWallet(Db, data.walletId, userId) # {}
     /\ findCategory(Db, data.categoryId, userId) # {}}

CreateLone ==
  /\ OpenSeries
  /\ \E u \in Users : \E data \in LoneRequests(u) : createTransaction(u, data)

NextSeries ==
  \/ CreateSeries
  \/ CreateLone
  \/ PayMember
  \/ MoveMember
  \/ DeleteMembers

SpecSeries == Init /\ [][NextSeries]_vars

\* ------------------------------------------------------- retagging entries
\* updateTransactionSchema also lets through the fields that say what series an
\* entry belongs to (null is NoType for the kind and 0 for the numbers); the
\* handler passes them to Prisma with the rest of the data.
RetagData ==
       {"isRecurring" :> b : b \in BOOLEAN}
  \cup {"isInstallment" :> b : b \in BOOLEAN}
  \cup {"recurringType" :> t : t \in {NoType, "WEEKLY"}}
  \cup {"installments" :> n : n \in 0..1}
  \cup {"currentInstallment" :> n : n \in 0..1}

RetagEntry ==
  /\ Open
  /\ \E u \in Users, id \in 1..MaxIds :
        /\ findTransaction(Db, id, u) # {}
        /\ \E data \in RetagData : \E all \in AllFlags(id) : updateTransaction(u, id, data, all)

NextEdit ==
  \/ CreateEntry
  \/ RetagEntry

SpecEdit == Init /\ [][NextEdit]_vars

\* ------------------------------------------------------ creating entries
\* Create requests in full: description, notes, due date and payment date, every
\* recurrence kind and longer installment plans, sent by one caller.
OpenCreate == steps < MaxCreateSteps

\* what the two kinds of request of SpecCreate carry besides amount and series:
\* a paid income with a payment date due at the end of January, and a pending
\* expense with notes due in the middle of December
Details ==
  {[walletId |-> "w1", categoryId |-> "c1", type |-> "INCOME", description |-> "rent",
    dueDate |-> [y |-> FirstYear, m |-> 0, d |-> 31], isPaid |-> TRUE,
    paymentDate |-> CHOOSE d \in RequestDates : TRUE],
   [walletId |-> "w2", categoryId |-> "c2", type |-> "EXPENSE", description |-> "gym",
    dueDate |-> [y |-> FirstYear, m |-> 11, d |-> 15], isPaid |-> FALSE,
    notes |-> "card"]}

\* every series createTransactionSchema lets through: one entry, a recurrence of
\* any kind, an installment plan, and the combinations the handler refuses
DetailedSeries ==
       {Single}
  \cup {Series(TRUE, t, FALSE, 0) : t \in RecurringTypes}
  \cup {Series(FALSE, NoType, TRUE, n) : n \in 1..MaxCreateInstallments}
  \cup BadSeries

\* a wallet of another user, a category of another user, ids no row has
ForeignWallet == "w3"
ForeignCategory == "c3"
MissingCategory == "c0"

\* the requests of SpecCreate: every amount and series with either of the details,
\* and each of them once with a direction, a wallet or a category the handler refuses
DetailedRequests ==
       {d @@ [amount |-> a] @@ s : d \in Details, a \in Amounts, s \in DetailedSeries}
  \cup {[d EXCEPT !.type = OtherType(@)] @@ [amount |-> Unit] @@ Single : d \in Details}
  \cup {[d EXCEPT !.walletId = w] @@ [amount |-> Unit] @@ Single :
          d \in Details, w \in {ForeignWallet, MissingWallet}}
  \cup {[d EXCEPT !.categoryId = c] @@ [amount |-> Unit] @@ Single :
          d \in Details, c \in {ForeignCategory, MissingCategory}}

CreateDetailed ==
  /\ OpenCreate
  /\ \E data \in DetailedRequests : createTransactionWithin(RaceUser, data, MaxCreateIds)

NextCreate == CreateDetailed

SpecCreate == Init /\ [][NextCreate]_vars

\* ------------------------------------------------------ amounts of entries
\* One caller creates entries and sets amounts, with amounts on either side of
\* zero: a negative one, zero, the smallest positive double and an ordinary one.
OpenAmounts == steps < MaxAmountSteps

SentAmounts == ((0 - 1)..1) \cup {Unit}

AmountRequests ==
  {d @@ [amount |-> a] @@ s :
     d \in Details, a \in SentAmounts,
     s \in {Single} \cup {Series(TRUE, t, FALSE, 0) : t \in RequestedRecurringTypes}
            \cup {Series(FALSE, NoType, TRUE, n) : n \in 1..MaxCreateInstallments}}

CreateAmount ==
  /\ OpenAmounts
  /\ \E data \in AmountRequests : createTransactionWithin(RaceUser, data, MaxCreateIds)

SetAmount ==
  /\ OpenAmounts
  /\ \E id \in 1..MaxCreateIds, a \in SentAmounts, all \in BOOLEAN :
        updateTransaction(RaceUser, id, "amount" :> a, all)

NextAmounts ==
  \/ CreateAmount
  \/ SetAmount

SpecAmounts == Init /\ [][NextAmounts]_vars

\* ------------------------------------------------------------ transfers only
\* One caller moves money between its wallets and takes transfers back, one
\* request after the other; no entry is ever created.
OpenTransfers == steps < MaxTransferSteps

MoveMoney ==
  /\ OpenTransfers
  /\ \E data \in TransferRequestsOf(RaceUser) :
        createTransferWithin(RaceUser, data, MaxLedgerTransfers)

TakeBack ==
  /\ OpenTransfers
  /\ \E id \in 1..MaxLedgerTransfers : deleteTransfer(RaceUser, id)

NextTransfers ==
  \/ MoveMoney
  \/ TakeBack

SpecTransfers == Init /\ [][NextTransfers]_vars

\* ---------------------------------------------------------- life of a wallet
\* One caller renames, deactivates and deletes wallets, next to the requests
\* that move their balances: entries created paid or not, and transfers.
OpenWallet == steps < MaxWalletSteps

\* what the body of an update carries: nothing, a name, an active flag, a balance
\* (which updateWalletSchema does not know), or all of them
WalletBodies ==
       {NoData, "name" :> NewWalletName, "balance" :> MaxAmount * Unit}
  \cup {"isActive" :> b : b \in BOOLEAN}
  \cup {[name |-> NewWalletName, isActive |-> FALSE, balance |-> 0]}

UpdateWallet ==
  /\ OpenWallet
  /\ \E id \in WalletIds :
        IF findWallet(Db, id, RaceUser) = {}
        THEN updateWallet(RaceUser, id, NoData)
        ELSE \E body \in WalletBodies : updateWallet(RaceUser, id, body)

DeleteWallet ==
  /\ OpenWallet
  /\ \E id \in WalletIds : deleteWallet(RaceUser, id)

WalletEntry ==
  /\ OpenWallet
  /\ \E w \in WalletIds, p \in BOOLEAN :
        /\ findWallet(Db, w, RaceUser) # {}
        /\ createTransaction(RaceUser, CreateRequest(w, "c1", "INCOME", Unit, p, Single))

WalletTransfer ==
  /\ OpenWallet
  /\ \E from, to \in WalletIds :
        /\ from # to
        /\ findWallet(Db, from, RaceUser) # {}
        /\ findWallet(Db, to, RaceUser) # {}
        /\ createTransfer(RaceUser, [fromWalletId |-> from, toWalletId |-> to, amount |-> Unit])

NextWallet ==
  \/ UpdateWallet
  \/ DeleteWallet
  \/ WalletEntry
  \/ WalletTransfer

SpecWallet == Init /\ [][NextWallet]_vars

\* ------------------------------------------------- generateRecurringDates
\* the due dates a request starts a series at
StartDates ==
  {[y |-> y, m |-> m, d |-> d] :
     y \in FirstYear..(FirstYear + YearSpan), m \in 0..11, d \in StartDays}

ValidStartDates == {D \in StartDates : D.d <= daysInMonth(D.y, D.m)}

\* generateRecurringDates(startDate, recurringType) before its loop
InitDates ==
  /\ InitLedger
  /\ gen \in {[startDate |-> D, recurringType |-> t, currentDate |-> D, dates |-> <<>>, i |-> 0] :
                D \in ValidStartDates, t \in RecurringTypes}

\* one turn of the loop: push the current date, advance it
Generate ==
  /\ gen # NoGen
  /\ gen.i < maxOccurrences
  /\ gen' = [gen EXCEPT !.dates = Append(@, gen.currentDate),
                        !.currentDate = getNextRecurringDate(@, gen.recurringType),
                        !.i = @ + 1]
  /\ UNCHANGED <<wallets, entries, transfers, categories, nextId, nextTransferId, steps, last,
                 procs, started>>
  /\ UNCHANGED authVars

NextDates == Generate

SpecDates == InitDates /\ [][NextDates]_vars

\* ------------------------------------------------------ requests in flight
\* Two requests of one user are handled at the same time.  A handler first awaits
\* its findFirst (Begin: what it read is kept in snap), other requests may commit
\* in between, then it checks what it read and runs its prisma.$transaction
\* against the rows stored at that moment (Finish).  The statements of a
\* transaction body are relative writes on rows named by id, which the store
\* serialises row by row, so a body takes effect at one moment.
\* the entries created before the requests begin: unpaid singletons
SetupRequests ==
  {CreateRequest(wc[1], wc[2], CategoryRows[wc[2]].type, a, FALSE, Single) :
     wc \in {x \in WalletIds \X CategoryIds :
               WalletOwner[x[1]] = RaceUser /\ CategoryRows[x[2]].userId = RaceUser},
     a \in Amounts}

\* the requests in flight: pay an entry, set isPaid on it, delete it alone, or
\* transfer between two wallets
RaceRequests ==
       {[op |-> "payTransaction", id |-> i, paymentDate |-> NoDate] : i \in 1..MaxIds}
  \cup {[op |-> "updateTransaction", id |-> i, data |-> [isPaid |-> TRUE], all |-> FALSE] :
          i \in 1..MaxIds}
  \cup {[op |-> "deleteTransaction", id |-> i, all |-> FALSE] : i \in 1..MaxIds}
  \cup {[op |-> "createTransfer", data |-> d] :
          d \in {t \in TransferRequests :
                   /\ t.fromWalletId # t.toWalletId
                   /\ t.fromWalletId \in WalletIds /\ t.toWalletId \in WalletIds
                   /\ WalletOwner[t.fromWalletId] = RaceUser
                   /\ WalletOwner[t.toWalletId] = RaceUser}}

\* prisma.transaction.count({ where: { categoryId: id } })
transactionsCount(db, id) ==
  Cardinality({i \in DOMAIN db.entries : db.entries[i].categoryId = id})

\* a body that writes the balance it read plus its delta
incrementOnSnapshot(snap, db) == [db EXCEPT !.wallets = snap.wallets]

\* the rows the increments of a body act on: the stored ones (balance: { increment })
incrementInPlace(snap, db) == db

\* the outcome of a transaction: its status and the rows it leaves
outcome(r, okStatus, db) ==
  IF r.ok THEN [status |-> okStatus, db |-> r.db] ELSE [status |-> 500, db |-> db]

\* a handler that read snap, answering against the stored rows db
answer(req, userId, snap, db) ==
  LET refuse(status) == [status |-> status, db |-> db]
      run(writes, okStatus) ==
        outcome(transaction(incrementInPlace(snap, db), writes, 0), okStatus, db)
  IN CASE req.op = "payTransaction" ->
            IF findTransaction(snap, req.id, userId) = {} THEN refuse(404)
            ELSE IF alreadyPaid(snap.entries[req.id]) THEN refuse(400)
            ELSE run(payWrites(snap.entries[req.id], req.paymentDate), 200)
       [] req.op = "updateTransaction" ->
            IF ~updateTransactionSchema(req.data) THEN refuse(400)
            ELSE IF findTransaction(snap, req.id, userId) = {} THEN refuse(404)
            ELSE IF \/ Has(req.data, "walletId") /\ findWallet(snap, req.data.walletId, userId) = {}
                    \/ Has(req.data, "categoryId")
                       /\ findCategory(snap, req.data.categoryId, userId) = {}
            THEN refuse(404)
            ELSE run(updateWrites(db, snap.entries[req.id], userId, req.data, req.all), 200)
       [] req.op = "deleteTransaction" ->
            IF findTransaction(snap, req.id, userId) = {} THEN refuse(404)
            ELSE run(deleteWrites(db, snap.entries[req.id], userId, req.all), 204)
       [] req.op = "createTransfer" ->
            IF req.data.fromWalletId = req.data.toWalletId THEN refuse(400)
            ELSE IF findWallet(snap, req.data.fromWalletId, userId) = {} THEN refuse(404)
            ELSE IF findWallet(snap, req.data.toWalletId, userId) = {} THEN refuse(404)
            ELSE IF insufficientBalance(snap.wallets[req.data.fromWalletId], req.data.amount)
            THEN refuse(400)
            ELSE run(createTransferWrites(userId, req.data), 201)
       [] req.op = "createTransaction" ->
            IF ~createTransactionSchema(req.data) THEN refuse(400)
            ELSE IF findWallet(snap, req.data.walletId, userId) = {} THEN refuse(404)
            ELSE IF findCategory(snap, req.data.categoryId, userId) = {} THEN refuse(404)
            ELSE IF req.data.type # snap.categories[req.data.categoryId].type THEN refuse(400)
            ELSE IF req.data.isRecurring /\ req.data.recurringType = NoType THEN refuse(400)
            ELSE IF req.data.isInstallment /\ req.data.installments = 0 THEN refuse(400)
            ELSE IF bothFlags(req.data) THEN refuse(400)
            ELSE run(createWrites(userId, req.data), 201)
       [] req.op = "updateCategory" ->
            IF findCategory(snap, req.id, userId) = {} THEN refuse(404)
            ELSE run(<<[op |-> "category.update", id |-> req.id, data |-> req.data]>>, 200)
       [] req.op = "deleteCategory" ->
            IF findCategory(snap, req.id, userId) = {} THEN refuse(404)
            ELSE IF transactionsCount(snap, req.id) > 0 THEN refuse(400)
            ELSE run(<<[op |-> "category.delete", id |-> req.id]>>, 204)

Quiet == started = NoBase /\ \A p \in Procs : procs[p] = Idle

\* an entry is created while no request is in flight
SetupEntry ==
  /\ Quiet
  /\ steps < MaxSetup
  /\ \E data \in SetupRequests : createTransaction(RaceUser, data)
  /\ last'.status = 201

\* a request arrives and its handler reads (the two requests are alike: the one
\* called p1 is the one that arrives first)
Begin ==
  \E p \in Procs, req \in RaceRequests :
     /\ procs[p] = Idle
     /\ p = "p2" => procs["p1"] # Idle
     /\ procs' = [procs EXCEPT ![p] = [pc |-> "read", req |-> req, snap |-> Db]]
     /\ started' = IF started = NoBase THEN Db ELSE started
     /\ UNCHANGED <<wallets, entries, transfers, categories, nextId, nextTransferId, steps,
                    last, gen>>
     /\ UNCHANGED authVars

\* the handler checks what it read, runs its transaction and answers; the only
\* failures are the writes the store rejects (storage failures are in Spec)
Finish ==
  \E p \in Procs :
     /\ procs[p].pc = "read"
     /\ procs[p].req.op = "createTransfer" => nextTransferId <= MaxRaceTransfers
     /\ LET a == answer(procs[p].req, RaceUser, procs[p].snap, Db)
        IN /\ wallets' = a.db.wallets
           /\ entries' = a.db.entries
           /\ transfers' = a.db.transfers
           /\ nextTransferId' = IF procs[p].req.op = "createTransfer" /\ a.status = 201
                                THEN nextTransferId + 1 ELSE nextTransferId
           /\ procs' = [procs EXCEPT ![p] = [pc |-> "done", req |-> procs[p].req,
                                             snap |-> procs[p].snap, status |-> a.status]]
     /\ Step
     /\ UNCHANGED <<categories, nextId, last, started, gen>>
     /\ UNCHANGED authVars

NextRace ==
  \/ SetupEntry
  \/ Begin
  \/ Finish

SpecRace == Init /\ [][NextRace]_vars

\* ------------------------------------------------- requests on paid entries
\* The requests in flight of SpecRace, on entries that were created paid.
PaidSetupRequests ==
  {CreateRequest(wc[1], wc[2], CategoryRows[wc[2]].type, Unit, TRUE, Single) :
     wc \in {x \in WalletIds \X CategoryIds :
               WalletOwner[x[1]] = RaceUser /\ CategoryRows[x[2]].userId = RaceUser}}

\* a paid entry is created while no request is in flight
SetupPaidEntry ==
  /\ Quiet
  /\ steps < MaxPaidSetup
  /\ \E data \in PaidSetupRequests : createTransaction(RaceUser, data)
  /\ last'.status = 201

NextDelete ==
  \/ SetupPaidEntry
  \/ Begin
  \/ Finish

SpecDelete == Init /\ [][NextDelete]_vars

\* ------------------------------------------------ categories and their entries
\* A category is updated or deleted while a request that attaches an entry to a
\* category is in flight: createTransaction, or updateTransaction with a
\* categoryId.  deleteCategory reads the category and counts its entries, then
\* issues one delete; updateCategory reads and issues one update.
CategorySetupRequests ==
  {CreateRequest("w1", c, CategoryRows[c].type, Unit, FALSE, Single) :
     c \in {x \in CategoryIds : CategoryRows[x].userId = RaceUser}}

CategoryRequests ==
       {[op |-> "deleteCategory", id |-> c] : c \in CategoryIds}
  \cup {[op |-> "updateCategory", id |-> c, data |-> [isActive |-> FALSE]] :
          c \in {x \in CategoryIds : CategoryRows[x].userId = RaceUser}}
  \cup {[op |-> "createTransaction", data |-> d] : d \in CategorySetupRequests}
  \cup {[op |-> "updateTransaction", id |-> i, data |-> [categoryId |-> c], all |-> FALSE] :
          i \in 1..MaxIds, c \in {x \in CategoryIds : CategoryRows[x].userId = RaceUser}}

\* an entry is created while no request is in flight
SetupCategoryEntry ==
  /\ Quiet
  /\ steps < MaxSetup
  /\ \E data \in CategorySetupRequests :
        createTransactionWithin(RaceUser, data, MaxCreateIds)
  /\ last'.status = 201

BeginCategory ==
  \E p \in Procs, req \in CategoryRequests :
     /\ procs[p] = Idle
     /\ p = "p2" => procs["p1"] # Idle
     /\ procs' = [procs EXCEPT ![p] = [pc |-> "read", req |-> req, snap |-> Db]]
     /\ started' = IF started = NoBase THEN Db ELSE started
     /\ UNCHANGED <<wallets, entries, transfers, categories, nextId, nextTransferId, steps,
                    last, gen>>
     /\ UNCHANGED authVars

\* the handler checks what it read, issues its writes and answers
FinishCategory ==
  \E p \in Procs :
     /\ procs[p].pc = "read"
     /\ LET req == procs[p].req
            a == answer(req, RaceUser, procs[p].snap, Db)
            creates == req.op = "createTransaction"
        IN /\ creates => nextId <= MaxCreateIds
           /\ wallets' = a.db.wallets
           /\ entries' = a.db.entries
           /\ transfers' = a.db.transfers
           /\ categories' = a.db.categories
           /\ nextId' = IF creates /\ a.status = 201 THEN nextId + 1 ELSE nextId
           /\ procs' = [procs EXCEPT ![p] = [pc |-> "done", req |-> req,
                                             snap |-> procs[p].snap, status |-> a.status]]
           /\ last' = Answer(req.op, a.status, RaceUser,
                             IF req.op = "updateTransaction" THEN req.id ELSE 0, FALSE,
                             IF creates \/ req.op = "updateTransaction" THEN req.data
                             ELSE [categoryId |-> req.id],
                             IF creates /\ a.status = 201 THEN {nextId} ELSE {},
                             NoPrior, 0)
     /\ Step
     /\ UNCHANGED <<nextTransferId, started, gen>>
     /\ UNCHANGED authVars

NextCategory ==
  \/ SetupCategoryEntry
  \/ BeginCategory
  \/ FinishCategory

SpecCategory == Init /\ [][NextCategory]_vars

\* ----------------------------------------------------------- password reset
\* Users ask for reset links, hours pass, and two resetPassword requests are in
\* flight: each reads the token row, checks it, and then runs its transaction.
\* The address and user agent of a request are only logged.
NullDate == 0
NewPasswords == {"abcdef", "uvwxyz"}
\* a token that was never issued
BogusToken == 0

\* the unused tokens of a user other than the token named
unusedOthers(tokens, userId, id) ==
  {i \in DOMAIN tokens :
     tokens[i].userId = userId /\ tokens[i].usedAt = NullDate /\ i # id}

\* forgotPassword for the email of a user: the raw token is the id of its row
forgotPassword(userId) ==
  LET resetToken == nextTokenId
      kept == Without(passwordResetTokens, unusedOthers(passwordResetTokens, userId, 0))
  IN /\ passwordResetTokens' =
          (nextTokenId :> [id |-> nextTokenId, token |-> createHash(resetToken),
                           userId |-> userId, expiresAt |-> clock + TokenLife,
                           usedAt |-> NullDate]) @@ kept
     /\ nextTokenId' = nextTokenId + 1
     /\ UNCHANGED <<users, clock>>

\* prisma.passwordResetToken.findUnique({ where: { token: hashedToken } })
findUniqueToken(tokens, hashedToken) ==
  {tokens[i] : i \in {j \in DOMAIN tokens : tokens[j].token = hashedToken}}

\* the array handed to prisma.$transaction by resetPassword: it fails as a whole
\* when the token row is no longer there
resetTransaction(resetToken, password) ==
  IF resetToken.id \notin DOMAIN passwordResetTokens
  THEN [ok |-> FALSE, users |-> users, passwordResetTokens |-> passwordResetTokens]
  ELSE [ok |-> TRUE,
        users |-> [users EXCEPT ![resetToken.userId].password = hash(password)],
        passwordResetTokens |->
          Without([passwordResetTokens EXCEPT ![resetToken.id].usedAt = clock],
                  unusedOthers(passwordResetTokens, resetToken.userId, resetToken.id))]

\* if (resetToken.usedAt) return 400
alreadyUsed(resetToken) == resetToken.usedAt # NullDate

ForgotPassword ==
  /\ nextTokenId <= MaxTokens
  /\ \E u \in Users : forgotPassword(u)
  /\ UNCHANGED <<wallets, entries, transfers, categories, nextId, nextTransferId, steps,
                 last, procs, started, gen>>

HourPasses ==
  /\ clock < MaxHours
  /\ clock' = clock + 1
  /\ UNCHANGED <<wallets, entries, transfers, categories, nextId, nextTransferId, steps,
                 last, procs, started, gen, users, passwordResetTokens, nextTokenId>>

\* a resetPassword request arrives and reads the row of its token
BeginReset ==
  \E p \in Procs, token \in {BogusToken} \cup (1..MaxTokens), password \in NewPasswords :
     /\ procs[p] = Idle
     /\ p = "p2" => procs["p1"] # Idle
     /\ procs' = [procs EXCEPT ![p] =
                    [pc |-> "read", req |-> [op |-> "resetPassword", token |-> token,
                                             password |-> password],
                     snap |-> findUniqueToken(passwordResetTokens, createHash(token))]]
     /\ UNCHANGED <<wallets, entries, transfers, categories, nextId, nextTransferId, steps,
                    last, started, gen>>
     /\ UNCHANGED authVars

\* the handler checks the row it read, runs its transaction and answers
FinishReset ==
  \E p \in Procs :
     /\ procs[p].pc = "read"
     /\ LET found == procs[p].snap
            resetToken == CHOOSE row \in found : TRUE
            r == resetTransaction(resetToken, procs[p].req.password)
            status == IF found = {} THEN 400
                      ELSE IF alreadyUsed(resetToken) THEN 400
                      ELSE IF clock > resetToken.expiresAt THEN 400
                      ELSE IF r.ok THEN 200 ELSE 500
        IN /\ users' = IF status = 200 THEN r.users ELSE users
           /\ passwordResetTokens' =
                IF status = 200 THEN r.passwordResetTokens ELSE passwordResetTokens
           /\ procs' = [procs EXCEPT ![p] =
                          [pc |-> "done", req |-> procs[p].req, snap |-> procs[p].snap,
                           status |-> status,
                           before |-> users, after |-> users']]
     /\ UNCHANGED <<wallets, entries, transfers, categories, nextId, nextTransferId, steps,
                    last, started, gen, nextTokenId, clock>>

NextReset ==
  \/ ForgotPassword
  \/ HourPasses
  \/ BeginReset
  \/ FinishReset

SpecReset == Init /\ [][NextReset]_vars

\* ================================================================= claims
\* the entry's signed contribution to its wallet while it is paid
contribution(e) == balanceChange(e.type, e.amount)

RECURSIVE SumContrib(_, _, _)
\* sum of the contributions of the paid entries of es among ids that sit on wallet w
SumContrib(es, ids, w) ==
  IF ids = {} THEN 0
  ELSE LET i == CHOOSE x \in ids : TRUE
       IN (IF es[i].isPaid /\ es[i].walletId = w THEN contribution(es[i]) ELSE 0)
          + SumContrib(es, ids \ {i}, w)

RECURSIVE SumTransfers(_, _, _)
\* transfers into w minus transfers out of w
SumTransfers(ts, ids, w) ==
  IF ids = {} THEN 0
  ELSE LET i == CHOOSE x \in ids : TRUE
       IN (IF ts[i].toWalletId = w THEN ts[i].amount ELSE 0)
          - (IF ts[i].fromWalletId = w THEN ts[i].amount ELSE 0)
          + SumTransfers(ts, ids \ {i}, w)

PaidSum(w) == SumContrib(entries, DOMAIN entries, w)

\* what the last request found stored
Pre == last.pre
PreEntry == Pre.entries[last.id]
PreBalance(w) == Pre.wallets[w].balance

Updated == last.op = "updateTransaction" /\ last.status = 200
Deleted == last.op = "deleteTransaction" /\ last.status = 204

\* the last request was aimed at a whole group
GroupWide == last.all /\ (PreEntry.recurringGroupId # NoGroup \/ PreEntry.installmentGroupId # NoGroup)

\* the members of the group of the entry named in the last request, as stored before it
PreGroup ==
  {i \in DOMAIN Pre.entries :
     /\ Pre.entries[i].userId = last.user
     /\ \/ PreEntry.recurringGroupId # NoGroup
           /\ Pre.entries[i].recurringGroupId = PreEntry.recurringGroupId
        \/ PreEntry.recurringGroupId = NoGroup /\ PreEntry.installmentGroupId # NoGroup
           /\ Pre.entries[i].installmentGroupId = PreEntry.installmentGroupId}

\* the siblings of the entry named in the last request
PreSiblings ==
  {i \in DOMAIN Pre.entries \ {last.id} :
     \/ PreEntry.recurringGroupId # NoGroup
        /\ Pre.entries[i].recurringGroupId = PreEntry.recurringGroupId
     \/ PreEntry.installmentGroupId # NoGroup
        /\ Pre.entries[i].installmentGroupId = PreEntry.installmentGroupId}

OthersUntouched(ids) ==
  /\ DOMAIN entries \ ids = DOMAIN Pre.entries \ ids
  /\ \A i \in DOMAIN entries \ ids : entries[i] = Pre.entries[i]

\* C1: every wallet's balance is its opening balance plus the contributions of the
\* paid entries now on it plus the transfers into it minus the transfers out of it.
C1_BalanceMatchesLedger ==
  \A w \in WalletIds :
     wallets[w].balance =
       OpeningBalance[w] + PaidSum(w) + SumTransfers(transfers, DOMAIN transfers, w)

C3_Case ==
  /\ Updated /\ ~last.all
  /\ DOMAIN last.data = {"isPaid"}
  /\ last.data.isPaid # PreEntry.isPaid

\* C3: an update of one entry that changes only its paid flag moves the balance of
\* the entry's wallet by the entry's contribution (added when it becomes paid, taken
\* back when it becomes unpaid) and changes no other wallet and no other entry.
C3_PaidToggleSingle ==
  C3_Case =>
    /\ \A w \in WalletIds :
          wallets[w].balance =
            PreBalance(w)
            + (IF w # PreEntry.walletId THEN 0
               ELSE IF last.data.isPaid THEN contribution(PreEntry)
               ELSE -contribution(PreEntry))
    /\ entries[last.id] = [PreEntry EXCEPT !.isPaid = last.data.isPaid]
    /\ OthersUntouched({last.id})

\* an installment member with a sibling was toggled alone
C3_Witness ==
  /\ C3_Case
  /\ PreEntry.installmentGroupId # NoGroup
  /\ PreSiblings # {}
  /\ wallets[PreEntry.walletId].balance # PreBalance(PreEntry.walletId)

\* the last request set isPaid, and nothing else, on a whole group
C4_Case ==
  /\ Updated /\ GroupWide
  /\ DOMAIN last.data = {"isPaid"}

\* the members whose paid flag the update changed
C4_Flipped == {i \in PreGroup : Pre.entries[i].isPaid # last.data.isPaid}

\* C4: a group-wide update carrying isPaid (and no amount or wallet) applies, for
\* every member whose paid flag changes, that member's contribution on that
\* member's wallet (added when it becomes paid, taken back when it becomes unpaid).
C4_GroupPaidReconciled ==
  C4_Case =>
    \A w \in WalletIds :
       wallets[w].balance =
         PreBalance(w)
         + (IF last.data.isPaid THEN 1 ELSE -1)
           * SumContrib([i \in C4_Flipped |-> [Pre.entries[i] EXCEPT !.isPaid = TRUE]],
                        C4_Flipped, w)

\* the last request moved one paid entry to another wallet and changed its paid flag
C5_Case ==
  /\ Updated /\ ~GroupWide
  /\ PreEntry.isPaid
  /\ Has(last.data, "walletId") /\ last.data.walletId # PreEntry.walletId
  /\ Has(last.data, "isPaid") /\ last.data.isPaid # PreEntry.isPaid

\* C5: an update of one paid entry that changes its wallet from A to B and its paid
\* flag takes the old contribution back from A and gives B the contribution of
\* the entry as it stands after the update (none when it is then unpaid).
C5_WalletAndPaidChange ==
  C5_Case =>
    LET e == entries[last.id]
    IN /\ wallets[PreEntry.walletId].balance =
            PreBalance(PreEntry.walletId) - contribution(PreEntry)
       /\ wallets[e.walletId].balance =
            PreBalance(e.walletId) + (IF e.isPaid THEN contribution(e) ELSE 0)

\* the last request gave one entry, paid before and after, a new amount
C6_Case ==
  /\ Updated /\ ~GroupWide
  /\ PreEntry.isPaid
  /\ Has(last.data, "isPaid") => last.data.isPaid
  /\ Has(last.data, "amount") /\ last.data.amount # PreEntry.amount
  /\ Has(last.data, "walletId") => last.data.walletId = PreEntry.walletId

\* C6: an update of one entry that is paid before and after and gets a new amount
\* (wallet unchanged) moves the balance of its wallet by the new contribution
\* minus the old one.
C6_AmountChangeOfPaid ==
  C6_Case =>
    wallets[PreEntry.walletId].balance =
      PreBalance(PreEntry.walletId) + contribution(entries[last.id]) - contribution(PreEntry)

\* the last request moved one entry, paid before and after, to another wallet
C7_Case ==
  /\ Updated /\ ~GroupWide
  /\ PreEntry.isPaid
  /\ Has(last.data, "isPaid") => last.data.isPaid
  /\ Has(last.data, "walletId") /\ last.data.walletId # PreEntry.walletId
  /\ Has(last.data, "amount") => last.data.amount = PreEntry.amount

\* C7: an update of one entry that is paid before and after and moves from wallet A
\* to another wallet B (amount unchanged) takes its contribution from A and gives
\* it to B.
C7_WalletChangeOfPaid ==
  C7_Case =>
    /\ wallets[PreEntry.walletId].balance =
         PreBalance(PreEntry.walletId) - contribution(PreEntry)
    /\ wallets[last.data.walletId].balance =
         PreBalance(last.data.walletId) + contribution(PreEntry)

\* the last request brought an isPaid that differs from the stored flag, together with an
\* amount or a wallet
C8_Case ==
  /\ Updated
  /\ Has(last.data, "isPaid") /\ last.data.isPaid # PreEntry.isPaid
  /\ \/ Has(last.data, "amount") /\ last.data.amount # PreEntry.amount
     \/ Has(last.data, "walletId") /\ last.data.walletId # PreEntry.walletId

C8_Amount == IF Has(last.data, "amount") THEN last.data.amount ELSE PreEntry.amount
C8_Wallet == IF Has(last.data, "walletId") THEN last.data.walletId ELSE PreEntry.walletId

C9_Case == Deleted /\ GroupWide

\* C9: a group-wide delete removes every member of the group owned by the caller;
\* each wallet loses exactly the contributions of the members that were paid, and
\* nothing else changes.
C9_GroupDelete ==
  C9_Case =>
    /\ DOMAIN entries \cap PreGroup = {}
    /\ OthersUntouched(PreGroup)
    /\ \A w \in WalletIds :
          wallets[w].balance = PreBalance(w) - SumContrib(Pre.entries, PreGroup, w)
    /\ transfers = Pre.transfers

\* a group with some members paid and some unpaid was deleted whole
C9_Witness ==
  /\ C9_Case
  /\ Cardinality(PreGroup) >= 2
  /\ \E i, j \in PreGroup : Pre.entries[i].isPaid /\ ~Pre.entries[j].isPaid
  /\ \E w \in WalletIds : wallets[w].balance # PreBalance(w)

\* the last request deleted a paid singleton that the request before it had created
C10_Case ==
  /\ Deleted
  /\ last.prior # NoPrior
  /\ PreEntry.isPaid
  /\ PreEntry.recurringGroupId = NoGroup /\ PreEntry.installmentGroupId = NoGroup

\* C10: deleting a paid singleton right after it was created gives every wallet
\* the balance it had before the create.
C10_CreateDeleteRoundTrip ==
  C10_Case => \A w \in WalletIds : wallets[w].balance = last.prior[w]

\* the round trip was made, and the create had moved the balance
C10_Witness ==
  /\ C10_Case
  /\ PreBalance(PreEntry.walletId) # last.prior[PreEntry.walletId]
  /\ last.id \notin DOMAIN entries

\* the last request created a singleton entry
C11_Case ==
  /\ last.op = "createTransaction" /\ last.status = 201
  /\ ~last.data.isRecurring /\ ~last.data.isInstallment

\* C11: a create without the recurring and installment flags inserts exactly one
\* entry, paid as the request says; when paid the balance of its wallet moves once
\* by +amount (income) or -amount (expense), when unpaid no balance moves; nothing
\* else changes.
C11_SingletonCreate ==
  C11_Case =>
    /\ last.created = {last.id}
    /\ last.id \notin DOMAIN Pre.entries
    /\ DOMAIN entries = DOMAIN Pre.entries \cup {last.id}
    /\ OthersUntouched({last.id})
    /\ entries[last.id].isPaid = last.data.isPaid
    /\ entries[last.id].amount = last.data.amount
    /\ entries[last.id].type = last.data.type
    /\ entries[last.id].walletId = last.data.walletId
    /\ entries[last.id].userId = last.user
    /\ \A w \in WalletIds :
          wallets[w].balance =
            PreBalance(w)
            + (IF last.data.isPaid /\ w = last.data.walletId
               THEN (IF last.data.type = "INCOME" THEN last.data.amount ELSE -last.data.amount)
               ELSE 0)
    /\ transfers = Pre.transfers

\* a paid expense was created and its wallet went down
C11_Witness ==
  /\ C11_Case
  /\ last.data.isPaid /\ last.data.type = "EXPENSE"
  /\ wallets[last.data.walletId].balance = PreBalance(last.data.walletId) - last.data.amount

\* the last request asked to pay an entry of the caller that was already paid
C12_Case ==
  /\ last.op = "payTransaction"
  /\ last.id \in DOMAIN Pre.entries
  /\ PreEntry.userId = last.user
  /\ PreEntry.isPaid

\* C12: paying an entry that is already paid is refused as already paid (the code
\* answers 400) and changes no wallet, no entry (paid flag and payment date
\* included) and no transfer.
C12_PayPaidRefused ==
  C12_Case =>
    /\ last.status = 400
    /\ wallets = Pre.wallets
    /\ entries = Pre.entries
    /\ transfers = Pre.transfers

\* a paid entry without a payment date was asked to be paid on a supplied date
C12_Witness ==
  /\ C12_Case
  /\ Has(last.data, "paymentDate") /\ last.data.paymentDate \in RequestDates
  /\ entries[last.id].paymentDate = NoDate

\* the last request paid an entry
C13_Case == last.op = "payTransaction" /\ last.status = 200

\* the clock when the last request was handled
C13_Clock == Now - 1

\* C13: a pay request on an unpaid entry of the caller is answered 200 unless its
\* transaction fails; answered 200, it has set the paid flag of that entry, stamped
\* the supplied date or else the current time, moved the balance of the entry's
\* wallet by the entry's contribution, and left every other entry (siblings
\* included), every other wallet and every transfer as they were.
C13_PayOne ==
  /\ (/\ last.op = "payTransaction"
      /\ last.id \in DOMAIN Pre.entries
      /\ PreEntry.userId = last.user
      /\ ~PreEntry.isPaid) => last.status \in {200, 500}
  /\ C13_Case =>
       /\ ~PreEntry.isPaid /\ PreEntry.userId = last.user
       /\ entries[last.id] =
            [PreEntry EXCEPT !.isPaid = TRUE,
                             !.paymentDate = IF Has(last.data, "paymentDate")
                                             THEN last.data.paymentDate ELSE C13_Clock]
       /\ C13_Clock \notin RequestDates
       /\ OthersUntouched({last.id})
       /\ \A w \in WalletIds :
             wallets[w].balance =
               PreBalance(w) + (IF w = PreEntry.walletId THEN contribution(PreEntry) ELSE 0)
       /\ transfers = Pre.transfers

\* a member of a group was paid on a supplied date, its sibling staying unpaid
C13_Witness ==
  /\ C13_Case
  /\ PreSiblings # {}
  /\ \A i \in PreSiblings : ~entries[i].isPaid
  /\ Has(last.data, "paymentDate")
  /\ entries[last.id].paymentDate \in RequestDates

\* the last request asked for a transfer that must be refused
C14_Case ==
  /\ last.op = "createTransfer"
  /\ Has(last.data, "amount")
  /\ \/ last.data.fromWalletId = last.data.toWalletId
     \/ findWallet(Pre, last.data.fromWalletId, last.user) = {}
     \/ findWallet(Pre, last.data.toWalletId, last.user) = {}
     \/ Pre.wallets[last.data.fromWalletId].balance < last.data.amount

\* C14: a transfer request whose source or destination wallet is missing or not the
\* caller's, whose two wallets are the same, or whose amount exceeds the balance
\* of the source, is refused; no transfer is recorded and no balance moves.
C14_TransferRefused ==
  C14_Case =>
    /\ last.status \in {400, 404}
    /\ transfers = Pre.transfers
    /\ wallets = Pre.wallets
    /\ entries = Pre.entries

\* two wallets of the caller, the source holding less than the amount asked
C14_Witness ==
  /\ C14_Case
  /\ last.data.fromWalletId # last.data.toWalletId
  /\ findWallet(Pre, last.data.fromWalletId, last.user) # {}
  /\ findWallet(Pre, last.data.toWalletId, last.user) # {}
  /\ Pre.wallets[last.data.fromWalletId].balance > 0
  /\ last.status = 400

RECURSIVE SumBalances(_, _, _)
\* the sum of the balances of the wallets of ids that belong to user
SumBalances(ws, ids, user) ==
  IF ids = {} THEN 0
  ELSE LET w == CHOOSE x \in ids : TRUE
       IN (IF ws[w].userId = user THEN ws[w].balance ELSE 0)
          + SumBalances(ws, ids \ {w}, user)

C15_Created == last.op = "createTransfer" /\ last.status = 201
C15_Deleted == last.op = "deleteTransfer" /\ last.status = 204

\* the change of the balance of w when amount goes from wallet a to wallet b
C15_Delta(w, a, b, amount) ==
  (IF w = b THEN amount ELSE 0) - (IF w = a THEN amount ELSE 0)

\* C15: a committed transfer of X takes X from the source, gives X to the
\* destination and adds its record; a committed delete gives X back to the source,
\* takes X from the destination and removes the record; a failed one changes
\* nothing; a delete right after its create restores every balance; the sum of the
\* caller's balances is the same before and after either.
C15_TransferAndInverse ==
  /\ C15_Created =>
       /\ last.id \notin DOMAIN Pre.transfers
       /\ DOMAIN transfers = DOMAIN Pre.transfers \cup {last.id}
       /\ \A i \in DOMAIN Pre.transfers : transfers[i] = Pre.transfers[i]
       /\ transfers[last.id] = [id |-> last.id, userId |-> last.user] @@ last.data
       /\ \A w \in WalletIds :
             wallets[w].balance =
               PreBalance(w)
               + C15_Delta(w, last.data.fromWalletId, last.data.toWalletId, last.data.amount)
       /\ SumBalances(wallets, WalletIds, last.user) = SumBalances(Pre.wallets, WalletIds, last.user)
  /\ C15_Deleted =>
       LET t == Pre.transfers[last.id]
       IN /\ transfers = Without(Pre.transfers, {last.id})
          /\ \A w \in WalletIds :
                wallets[w].balance =
                  PreBalance(w) + C15_Delta(w, t.toWalletId, t.fromWalletId, t.amount)
          /\ SumBalances(wallets, WalletIds, last.user)
               = SumBalances(Pre.wallets, WalletIds, last.user)
          /\ last.prior # NoPrior => \A w \in WalletIds : wallets[w].balance = last.prior[w]
  /\ (last.op \in {"createTransfer", "deleteTransfer"} /\ last.status = 500) =>
       wallets = Pre.wallets /\ transfers = Pre.transfers
  /\ last.op \in {"createTransfer", "deleteTransfer"} => entries = Pre.entries

\* a transfer was deleted right after it was created, and both balances had moved
C15_Witness ==
  /\ C15_Deleted
  /\ last.prior # NoPrior
  /\ \E w \in WalletIds : PreBalance(w) # last.prior[w]
  /\ last.id \notin DOMAIN transfers

\* ------------------------------------------------- claims on requests in flight
AllDone == \A p \in Procs : procs[p].pc = "done"

RaceOps == {procs[p].req.op : p \in Procs}

\* the request p tries to mark an entry paid
MarksPaid(p) ==
  \/ procs[p].req.op = "payTransaction"
  \/ procs[p].req.op = "updateTransaction" /\ procs[p].req.data = [isPaid |-> TRUE]

\* the entry both requests name, as stored when the first of them began
RaceEntry == started.entries[procs["p1"].req.id]

\* both requests read before either of them wrote
ReadTogether == \A p \in Procs : procs[p].snap = started

\* both requests tried to mark the same unpaid entry paid, one of them at least
\* with payEntry, and neither met a failure of the store
C16_Case ==
  /\ AllDone
  /\ \A p \in Procs : MarksPaid(p) /\ procs[p].status # 500
  /\ "payTransaction" \in RaceOps
  /\ procs["p1"].req.id = procs["p2"].req.id
  /\ procs["p1"].req.id \in DOMAIN started.entries
  /\ ~RaceEntry.isPaid

\* C16: when two requests in flight each mark the same unpaid entry paid, the
\* wallet of the entry has gained the entry's contribution exactly once when both
\* are done, and no other wallet has moved.
C16_PaidOnce ==
  C16_Case =>
    \A w \in WalletIds :
       wallets[w].balance =
         started.wallets[w].balance
         + (IF w = RaceEntry.walletId THEN contribution(RaceEntry) ELSE 0)

\* both requests paid, and two different unpaid entries of one wallet
C17_Case ==
  /\ AllDone
  /\ RaceOps = {"payTransaction"}
  /\ procs["p1"].req.id # procs["p2"].req.id
  /\ \A p \in Procs :
        /\ procs[p].req.id \in DOMAIN started.entries
        /\ ~started.entries[procs[p].req.id].isPaid
        /\ procs[p].status = 200
  /\ started.entries[procs["p1"].req.id].walletId = started.entries[procs["p2"].req.id].walletId

\* C17: when two pay requests in flight on two different unpaid entries of the
\* same wallet are both done, the wallet has moved by the sum of the two
\* contributions, both entries are paid and no other wallet has moved.
C17_BothDeltasLand ==
  C17_Case =>
    /\ \A w \in WalletIds :
          wallets[w].balance =
            started.wallets[w].balance
            + (IF w = RaceEntry.walletId
               THEN contribution(started.entries[procs["p1"].req.id])
                    + contribution(started.entries[procs["p2"].req.id])
               ELSE 0)
    /\ \A p \in Procs : entries[procs[p].req.id].isPaid

\* both pay requests had read before either wrote
C17_Witness ==
  /\ C17_Case
  /\ ReadTogether
  /\ wallets[RaceEntry.walletId].balance # started.wallets[RaceEntry.walletId].balance

\* both requests asked for a transfer
C18_Case == AllDone /\ RaceOps = {"createTransfer"}

\* C18: when transfer requests in flight are done, no wallet whose balance was not
\* negative when they began has a negative balance.
C18_NoOverdraft ==
  C18_Case =>
    \A w \in WalletIds : started.wallets[w].balance >= 0 => wallets[w].balance >= 0

\* a pay request and a delete request (of the entry alone) on the same unpaid entry
C19_Case ==
  /\ AllDone
  /\ RaceOps = {"payTransaction", "deleteTransaction"}
  /\ procs["p1"].req.id = procs["p2"].req.id
  /\ procs["p1"].req.id \in DOMAIN started.entries
  /\ ~RaceEntry.isPaid

\* C19: when a pay request and a delete request in flight on the same unpaid entry
\* are both done, every wallet's balance is what it was plus the contribution of the
\* entry if the entry is still stored and paid: a removed entry leaves nothing in
\* the balance.
C19_PayDeleteLedger ==
  C19_Case =>
    \A w \in WalletIds :
       wallets[w].balance =
         started.wallets[w].balance
         + (IF /\ RaceEntry.id \in DOMAIN entries
               /\ entries[RaceEntry.id].isPaid
               /\ entries[RaceEntry.id].walletId = w
            THEN contribution(entries[RaceEntry.id]) ELSE 0)

\* ------------------------------------------------------ claims on due dates
RECURSIVE DaysBeforeYear(_)
\* days from 1 January FirstYear to 1 January y
DaysBeforeYear(y) ==
  IF y <= FirstYear THEN 0
  ELSE DaysBeforeYear(y - 1) + (IF isLeapYear(y - 1) THEN 366 ELSE 365)

RECURSIVE DaysBeforeMonth(_, _)
\* days from 1 January y to the first of month m
DaysBeforeMonth(y, m) == IF m = 0 THEN 0 ELSE DaysBeforeMonth(y, m - 1) + daysInMonth(y, m - 1)

\* the number of the day that is d - 1 days after the first of month m (counted
\* from January of year y, past December included)
DayNumber(y, m, d) ==
  DaysBeforeYear(y + (m \div 12)) + DaysBeforeMonth(y + (m \div 12), m % 12) + d - 1

DayOf(D) == DayNumber(D.y, D.m, D.d)

\* the start date advanced by k steps at once: the day kept, rolling over when the
\* month is too short ...
C20_FromStart(k) ==
  LET D == gen.startDate
  IN CASE gen.recurringType = "WEEKLY" -> DayOf(D) + 7 * k
       [] gen.recurringType = "YEARLY" -> DayNumber(D.y + k, D.m, D.d)
       [] OTHER -> DayNumber(D.y, D.m + k, D.d)

\* ... or cut to the last day of the month
C20_FromStartClamped(k) ==
  LET D == gen.startDate
      y == IF gen.recurringType = "YEARLY" THEN D.y + k
           ELSE IF gen.recurringType = "WEEKLY" THEN D.y ELSE D.y + ((D.m + k) \div 12)
      m == IF gen.recurringType \in {"YEARLY", "WEEKLY"} THEN D.m ELSE (D.m + k) % 12
  IN IF gen.recurringType = "WEEKLY" THEN DayOf(D) + 7 * k
     ELSE DayNumber(y, m, Min(D.d, daysInMonth(y, m)))

\* the date before the last one pushed, advanced by one step
C20_FromPrevious ==
  LET P == gen.dates[Len(gen.dates) - 1]
  IN CASE gen.recurringType = "WEEKLY" -> DayOf(P) + 7
       [] gen.recurringType = "YEARLY" -> DayNumber(P.y + 1, P.m, P.d)
       [] OTHER -> DayNumber(P.y, P.m + 1, P.d)

C20_Generating == gen # NoGen /\ Len(gen.dates) >= 1
C20_Last == gen.dates[Len(gen.dates)]

\* C20 as claimed: the k-th due date is the start date plus k - 1 steps (7 days,
\* one calendar month, one calendar year), whichever way a month too short for
\* the day is handled, and the loop ends with 36 dates.
C20_StepsFromStart ==
  C20_Generating =>
    /\ \/ DayOf(C20_Last) = C20_FromStart(Len(gen.dates) - 1)
       \/ DayOf(C20_Last) = C20_FromStartClamped(Len(gen.dates) - 1)
    /\ gen.i = maxOccurrences => Len(gen.dates) = 36

\* C20 amended: the first due date is the start date and each later one is the one
\* before it advanced by one step (7 days; the same day of the next month for
\* MONTHLY and INDEFINITE, of the next year for YEARLY, rolling over into the
\* following month when that month is too short); the dates are in ascending
\* order, the loop ends with 36 of them, and when the start day is at most the
\* 28th the k-th date is the start date plus k - 1 steps.
C20_StepsFromPrevious ==
  C20_Generating =>
    /\ gen.dates[1] = gen.startDate
    /\ Len(gen.dates) = gen.i
    /\ Len(gen.dates) <= 36
    /\ gen.i = maxOccurrences => Len(gen.dates) = 36
    /\ Len(gen.dates) >= 2 =>
         /\ DayOf(C20_Last) = C20_FromPrevious
         /\ DayOf(C20_Last) > DayOf(gen.dates[Len(gen.dates) - 1])
    /\ C20_Last.m \in 0..11 /\ C20_Last.d \in 1..daysInMonth(C20_Last.y, C20_Last.m)
    /\ gen.startDate.d <= 28 => DayOf(C20_Last) = C20_FromStart(Len(gen.dates) - 1)

\* a monthly series begun on the 31st is complete and its dates have left the
\* start date plus whole months
C20_Witness ==
  /\ C20_Generating
  /\ gen.i = maxOccurrences
  /\ gen.recurringType = "MONTHLY"
  /\ gen.startDate.d = 31
  /\ DayOf(C20_Last) # C20_FromStart(35)
  /\ DayOf(C20_Last) # C20_FromStartClamped(35)

\* ------------------------------------------------- claims on creating entries
Created == last.op = "createTransaction" /\ last.status = 201

\* the group ids an entry carries
groupIds(e) == {e.recurringGroupId, e.installmentGroupId} \ {NoGroup}

\* the last request created a recurring series
C21_Case == Created /\ last.data.isRecurring

\* C21: the entries created by one recurring create request carry the request's
\* description, amount, direction, wallet, category and notes, are flagged
\* recurring with the requested kind, and share one group id that no entry created
\* by another request carries.
C21_RecurringSeries ==
  C21_Case =>
    /\ \A i \in last.created :
          /\ entries[i].description = last.data.description
          /\ entries[i].amount = last.data.amount
          /\ entries[i].type = last.data.type
          /\ entries[i].walletId = last.data.walletId
          /\ entries[i].categoryId = last.data.categoryId
          /\ entries[i].notes = (IF Has(last.data, "notes") THEN last.data.notes ELSE NoNotes)
          /\ entries[i].isRecurring
          /\ entries[i].recurringType = last.data.recurringType
          /\ entries[i].recurringGroupId # NoGroup
    /\ \A i, j \in last.created : entries[i].recurringGroupId = entries[j].recurringGroupId
    /\ \A i \in last.created, j \in DOMAIN entries \ last.created :
          entries[i].recurringGroupId \notin groupIds(entries[j])

\* a series with notes was created after another request had created a series
C21_Witness ==
  /\ C21_Case
  /\ Has(last.data, "notes")
  /\ Cardinality(last.created) > 1
  /\ \E j \in DOMAIN entries \ last.created : groupIds(entries[j]) # {}

\* the last request created an installment plan
C22_Case == Created /\ last.data.isInstallment

\* the i-th entry the last request created
C22_Member(i) == entries[last.id + i - 1]

\* D plus k calendar months: the day kept, rolling over when the month is too
\* short ...
C22_MonthsLater(D, k) == DayNumber(D.y, D.m + k, D.d)

\* ... or cut to the last day of the month
C22_MonthsLaterClamped(D, k) ==
  LET y == D.y + ((D.m + k) \div 12)
      m == (D.m + k) % 12
  IN DayNumber(y, m, Min(D.d, daysInMonth(y, m)))

\* what the claim says of an installment plan besides its due dates
C22_Plan ==
  LET N == last.data.installments
  IN /\ last.created = last.id..(last.id + N - 1)
     /\ Cardinality(last.created) = N
     /\ \A i \in 1..N :
           /\ C22_Member(i).amount * N = last.data.amount
           /\ C22_Member(i).description
                = last.data.description \o " (" \o ToString(i) \o "/" \o ToString(N) \o ")"
           /\ C22_Member(i).currentInstallment = i
           /\ C22_Member(i).installments = N
           /\ C22_Member(i).isInstallment
           /\ ~C22_Member(i).isPaid
           /\ C22_Member(i).installmentGroupId # NoGroup
           /\ C22_Member(i).installmentGroupId = C22_Member(1).installmentGroupId
     /\ \A j \in DOMAIN entries \ last.created :
           C22_Member(1).installmentGroupId \notin groupIds(entries[j])

\* C22 as claimed: an installment request of count N, total T and start date D
\* creates exactly N unpaid entries sharing one fresh installment-group id, the
\* i-th with amount T/N, description "<description> (i/N)", position i of N and
\* due date D plus i - 1 calendar months, whichever way a month too short for the
\* day is handled.
C22_DueFromStart ==
  C22_Case =>
    /\ C22_Plan
    /\ \A i \in 1..last.data.installments :
          \/ DayOf(C22_Member(i).dueDate) = C22_MonthsLater(last.data.dueDate, i - 1)
          \/ DayOf(C22_Member(i).dueDate) = C22_MonthsLaterClamped(last.data.dueDate, i - 1)

\* C22 amended: the same, the due dates being D for the first entry and for each
\* later entry the due date of the entry before it moved to the same day of the
\* next month, rolling over into the following month when that month is too short;
\* when the day of D is at most the 28th the i-th due date is D plus i - 1 months.
C22_DueFromPrevious ==
  C22_Case =>
    /\ C22_Plan
    /\ C22_Member(1).dueDate = last.data.dueDate
    /\ \A i \in 2..last.data.installments :
          LET P == C22_Member(i - 1).dueDate
          IN /\ DayOf(C22_Member(i).dueDate) = DayNumber(P.y, P.m + 1, P.d)
             /\ C22_Member(i).dueDate.m \in 0..11
             /\ C22_Member(i).dueDate.d
                  \in 1..daysInMonth(C22_Member(i).dueDate.y, C22_Member(i).dueDate.m)
    /\ last.data.dueDate.d <= 28 =>
          \A i \in 1..last.data.installments :
             DayOf(C22_Member(i).dueDate) = C22_MonthsLater(last.data.dueDate, i - 1)

\* a plan begun on the 31st whose third due date has left the start date plus two
\* months
C22_Witness ==
  /\ C22_Case
  /\ last.data.installments >= 3
  /\ last.data.dueDate.d = 31
  /\ DayOf(C22_Member(3).dueDate) # C22_MonthsLater(last.data.dueDate, 2)
  /\ DayOf(C22_Member(3).dueDate) # C22_MonthsLaterClamped(last.data.dueDate, 2)

\* the last request created a series
C23_Case == Created /\ (last.data.isRecurring \/ last.data.isInstallment)

\* C23: a create request with the recurring or the installment flag creates only
\* unpaid entries without a payment date, whatever isPaid and paymentDate the
\* request carries, and changes no wallet balance.
C23_SeriesStartUnpaid ==
  C23_Case =>
    /\ last.created # {}
    /\ \A i \in last.created : ~entries[i].isPaid /\ entries[i].paymentDate = NoDate
    /\ \A w \in WalletIds : wallets[w].balance = PreBalance(w)

\* a series was asked for as paid, with a payment date
C23_Witness ==
  /\ C23_Case
  /\ last.data.isPaid
  /\ Has(last.data, "paymentDate") /\ last.data.paymentDate # NoDate
  /\ Cardinality(last.created) > 1

\* the last request was a create whose data is on record (answered otherwise than
\* by a storage failure)
C28_Asked == last.op = "createTransaction" /\ last.data # NoData

C28_NotFound ==
  \/ ~(last.data.walletId \in DOMAIN Pre.wallets
        /\ Pre.wallets[last.data.walletId].userId = last.user)
  \/ ~(last.data.categoryId \in DOMAIN Pre.categories
        /\ Pre.categories[last.data.categoryId].userId = last.user)

C28_Invalid ==
  \/ /\ last.data.categoryId \in DOMAIN Pre.categories
     /\ last.data.type # Pre.categories[last.data.categoryId].type
  \/ last.data.isRecurring /\ last.data.recurringType = NoType
  \/ last.data.isInstallment /\ last.data.installments = 0
  \/ last.data.isRecurring /\ last.data.isInstallment

\* C28: a create request is refused, no entry created and no balance changed,
\* when its wallet or its category is not found for the caller (not found), when
\* its direction is not its category's, when it is recurring without a kind,
\* installment without a count, or both recurring and installment (invalid).
C28_CreateRefused ==
  (C28_Asked /\ (C28_NotFound \/ C28_Invalid)) =>
    /\ last.status = (IF C28_NotFound THEN 404 ELSE 400)
    /\ last.created = {}
    /\ entries = Pre.entries
    /\ wallets = Pre.wallets

\* a request with both flags, paid, was refused after a series had been created
C28_Witness ==
  /\ C28_Asked /\ ~C28_NotFound
  /\ last.data.isRecurring /\ last.data.isInstallment /\ last.data.isPaid
  /\ last.status = 400
  /\ Pre.entries # <<>>

\* ------------------------------------------------------ claims on ownership
\* the rows of a table that the caller of the last request does not own
OfOthers(rows) == {i \in DOMAIN rows : rows[i].userId # last.user}

\* the last request named an entry, a transfer or a wallet or category that the
\* caller does not own or that is not stored
C29_EntryNotOwn ==
  /\ last.op \in {"updateTransaction", "deleteTransaction", "payTransaction"}
  /\ last.id \notin DOMAIN Pre.entries \ OfOthers(Pre.entries)

C29_TransferNotOwn ==
  /\ last.op = "deleteTransfer"
  /\ last.id \notin DOMAIN Pre.transfers \ OfOthers(Pre.transfers)

C29_WalletNotOwn ==
  \/ /\ last.op = "createTransfer" /\ last.data # NoData
     /\ last.data.fromWalletId # last.data.toWalletId
     /\ {last.data.fromWalletId, last.data.toWalletId}
          \cap (DOMAIN Pre.wallets \ OfOthers(Pre.wallets))
            # {last.data.fromWalletId, last.data.toWalletId}
  \/ /\ last.op \in {"createTransaction", "updateTransaction"}
     /\ Has(last.data, "walletId")
     /\ last.data.walletId \notin DOMAIN Pre.wallets \ OfOthers(Pre.wallets)

C29_CategoryNotOwn ==
  /\ last.op \in {"createTransaction", "updateTransaction"}
  /\ Has(last.data, "categoryId")
  /\ last.data.categoryId \notin DOMAIN Pre.categories \ OfOthers(Pre.categories)

\* C29: a request changes no entry, wallet, category or transfer of a user other
\* than its caller and creates none for one; a request naming an entry, wallet,
\* category or transfer of another user is answered not found, as is one naming
\* an id that is not stored, and changes nothing.
C29_OwnRowsOnly ==
  /\ \A w \in OfOthers(Pre.wallets) : wallets[w] = Pre.wallets[w]
  /\ \A c \in OfOthers(Pre.categories) : c \in DOMAIN categories /\ categories[c] = Pre.categories[c]
  /\ \A i \in OfOthers(Pre.entries) : i \in DOMAIN entries /\ entries[i] = Pre.entries[i]
  /\ \A t \in OfOthers(Pre.transfers) : t \in DOMAIN transfers /\ transfers[t] = Pre.transfers[t]
  /\ OfOthers(entries) \subseteq DOMAIN Pre.entries
  /\ OfOthers(transfers) \subseteq DOMAIN Pre.transfers
  /\ (C29_EntryNotOwn \/ C29_TransferNotOwn \/ C29_WalletNotOwn \/ C29_CategoryNotOwn) =>
       /\ last.status = 404
       /\ wallets = Pre.wallets /\ entries = Pre.entries
       /\ transfers = Pre.transfers /\ categories = Pre.categories

\* a caller named a paid entry of another user
C29_Witness ==
  /\ C29_EntryNotOwn
  /\ last.id \in OfOthers(Pre.entries)
  /\ Pre.entries[last.id].isPaid
  /\ last.status = 404

\* ------------------------------------------------ claims on retagging entries
\* C24: no entry is flagged both recurring and installment, whatever create and
\* update requests (single or group-wide) were handled.
C24_NeverBothFlags ==
  \A i \in DOMAIN entries : ~(entries[i].isRecurring /\ entries[i].isInstallment)

\* what says of an entry which series it belongs to and where
membership(e) ==
  [isRecurring |-> e.isRecurring, recurringType |-> e.recurringType,
   recurringGroupId |-> e.recurringGroupId, isInstallment |-> e.isInstallment,
   currentInstallment |-> e.currentInstallment, installments |-> e.installments,
   installmentGroupId |-> e.installmentGroupId]

\* C25: an update request, single or group-wide, leaves every entry's recurring
\* flag, recurrence kind, recurrence-group id, installment flag, position, total
\* and installment-group id as they were.
C25_MembershipKept ==
  Updated =>
    \A i \in DOMAIN entries : membership(entries[i]) = membership(Pre.entries[i])

\* ----------------------------------------------------- claims on categories
\* C26: every entry's direction tag is the direction tag of its category,
\* whatever create, update (also of the category id, single or group-wide) and
\* category update requests were handled.
C26_DirectionOfCategory ==
  \A i \in DOMAIN entries :
     entries[i].categoryId \in DOMAIN categories
       => entries[i].type = categories[entries[i].categoryId].type

\* the category the last deleteCategory named, and whether an entry named it when
\* the delete was issued
C27_Category == last.data.categoryId
C27_Referenced == \E i \in DOMAIN Pre.entries : Pre.entries[i].categoryId = C27_Category

\* C27: every entry names a stored category; a category is removed only by
\* deleteCategory and only while no entry names it; deleteCategory on a category
\* an entry names fails and leaves the category as it was, also when the entry
\* was attached while the deleteCategory was in flight.
C27_CategoryKept ==
  /\ \A i \in DOMAIN entries : entries[i].categoryId \in DOMAIN categories
  /\ DOMAIN categories # DOMAIN Pre.categories =>
       /\ last.op = "deleteCategory" /\ last.status = 204
       /\ DOMAIN categories = DOMAIN Pre.categories \ {C27_Category}
       /\ ~C27_Referenced
  /\ (last.op = "deleteCategory" /\ C27_Referenced) =>
       /\ last.status \in {400, 500}
       /\ categories = Pre.categories

\* a deleteCategory counted no entry, an entry was attached to the category
\* before the delete was issued, and the delete failed
C27_Witness ==
  /\ last.op = "deleteCategory" /\ C27_Referenced
  /\ last.status = 500
  /\ \E p \in Procs :
        /\ procs[p].pc = "done" /\ procs[p].req.op = "deleteCategory"
        /\ procs[p].req.id = C27_Category
        /\ transactionsCount(procs[p].snap, C27_Category) = 0

\* ------------------------------------------------------- claims on updates
\* the target set of the last update: the group of the entry it named when the
\* request asked for the group and the entry has a group id, else that entry
C30_Targets == IF GroupWide THEN PreGroup ELSE {last.id}

\* C30: an update applies the fields of the request to every entry of its target
\* set, answers with exactly these entries and leaves every other entry as it was.
C30_ExactlyTargets ==
  Updated =>
    /\ \A i \in C30_Targets :
          /\ i \in DOMAIN entries
          /\ \A f \in DOMAIN Pre.entries[i] :
                entries[i][f] = (IF Has(last.data, f) THEN last.data[f] ELSE Pre.entries[i][f])
    /\ last.created = C30_Targets
    /\ OthersUntouched(C30_Targets)

\* an amount was set on a whole series of two entries that were not alike
C30_Witness ==
  /\ Updated /\ GroupWide
  /\ Cardinality(PreGroup) > 1
  /\ Has(last.data, "amount")
  /\ \E i \in PreGroup : Pre.entries[i].amount # last.data.amount
  /\ \E i, j \in PreGroup : Pre.entries[i].dueDate # Pre.entries[j].dueDate

\* ------------------------------------------------------- claims on deletes
\* C31: a delete aimed at one entry alone (the group flag off, or the entry in no
\* group whatever the flag) removes exactly that entry, gives its contribution back
\* to its wallet exactly when it was paid, and leaves every other entry, siblings
\* included, and every other balance as they were.
C31_Case == Deleted /\ ~GroupWide

C31_SingleDelete ==
  C31_Case =>
    /\ DOMAIN entries = DOMAIN Pre.entries \ {last.id}
    /\ OthersUntouched({last.id})
    /\ transfers = Pre.transfers
    /\ \A w \in WalletIds :
          wallets[w].balance =
            PreBalance(w) - (IF PreEntry.isPaid /\ w = PreEntry.walletId
                             THEN contribution(PreEntry) ELSE 0)

\* a paid member of a series deleted alone next to a sibling that stays
C31_Witness ==
  /\ C31_Case
  /\ PreEntry.isPaid
  /\ PreSiblings # {}
  /\ PreSiblings \subseteq DOMAIN entries

\* a paid entry of no group deleted with the group flag on
C31_WitnessFlag ==
  /\ C31_Case
  /\ last.all
  /\ PreEntry.isPaid

\* ------------------------------------------------- claims on unpaid entries
\* the entries the last request was aimed at
C39_Targets ==
  IF last.op = "createTransaction" THEN last.created
  ELSE IF GroupWide THEN PreGroup ELSE {last.id}

\* the last request created, updated or deleted entries that were unpaid before it
\* (where they existed) and are unpaid after it (where they still exist)
C39_Case ==
  /\ \/ last.op = "createTransaction" /\ last.status = 201
     \/ Updated
     \/ Deleted
  /\ \A i \in C39_Targets :
        /\ i \in DOMAIN Pre.entries => ~Pre.entries[i].isPaid
        /\ i \in DOMAIN entries => ~entries[i].isPaid

\* C39: creating an unpaid entry, updating any fields of an unpaid entry without
\* making it paid, and deleting an unpaid entry leave every wallet's balance as
\* it was.
C39_UnpaidLeavesBalances ==
  C39_Case => \A w \in WalletIds : wallets[w].balance = PreBalance(w)

\* an unpaid entry was given another amount and another wallet, with isPaid sent
\* as false
C39_Witness ==
  /\ C39_Case /\ Updated
  /\ Has(last.data, "isPaid") /\ Has(last.data, "amount") /\ Has(last.data, "walletId")
  /\ last.data.amount # PreEntry.amount
  /\ last.data.walletId # PreEntry.walletId

\* an unpaid entry was deleted
C39_WitnessDelete == C39_Case /\ Deleted

\* an unpaid entry of no series was created
C39_WitnessCreate ==
  /\ C39_Case /\ last.op = "createTransaction"
  /\ \E i \in last.created :
        entries[i].recurringGroupId = NoGroup /\ entries[i].installmentGroupId = NoGroup

\* ------------------------------------------------------- claims on amounts
\* C36: every stored entry has an amount above zero.
C36_AmountsPositive == \A i \in DOMAIN entries : entries[i].amount > 0

\* the requests with an amount of zero or below are refused and store nothing
C36_RefusedAtTheDoor ==
  (last.op \in {"createTransaction", "updateTransaction"}
   /\ Has(last.data, "amount") /\ last.data.amount <= 0)
    => last.status = 400 /\ entries = Pre.entries

\* what is stored with an amount not above zero was asked for with one that
\* installmentAmount rounds down to nothing
C36_OnlyByRounding ==
  \A i \in DOMAIN entries :
     entries[i].amount <= 0 => entries[i].isInstallment /\ entries[i].amount = 0

\* ------------------------------------------------------- claims on wallets
\* C32: an update of a wallet leaves its balance, and every other wallet's, as it
\* was, whatever its body carries; a balance only moves in the requests that
\* create, update, pay or delete entries or create or delete transfers.
C32_BalanceNotOverwritten ==
  /\ last.op = "updateWallet" =>
        \A w \in WalletIds : wallets[w].balance = PreBalance(w)
  /\ (\E w \in WalletIds : wallets[w].balance # PreBalance(w)) =>
        last.op \in {"createTransaction", "updateTransaction", "payTransaction",
                     "deleteTransaction", "createTransfer", "deleteTransfer"}

\* an update that carried a balance other than the stored one was answered 200
C32_Witness ==
  /\ last.op = "updateWallet" /\ last.status = 200
  /\ Has(last.data, "balance")
  /\ last.data.balance # PreBalance(last.id)

\* C34: deleting a wallet with a balance other than zero fails and changes
\* nothing; deleting a wallet with balance zero only marks it inactive: the
\* row, its other fields and every entry and transfer stay.
C34_DeleteWallet ==
  /\ (last.op = "deleteWallet" /\ last.status # 404 /\ PreBalance(last.id) # 0) =>
        /\ last.status = 400
        /\ wallets = Pre.wallets /\ entries = Pre.entries /\ transfers = Pre.transfers
  /\ (last.op = "deleteWallet" /\ last.status = 204) =>
        /\ PreBalance(last.id) = 0
        /\ wallets = [Pre.wallets EXCEPT ![last.id].isActive = FALSE]
        /\ entries = Pre.entries /\ transfers = Pre.transfers

\* a wallet that an entry or a transfer names was deleted
C34_Witness ==
  /\ last.op = "deleteWallet" /\ last.status = 204
  /\ \/ \E i \in DOMAIN entries : entries[i].walletId = last.id
     \/ \E i \in DOMAIN transfers : last.id \in {transfers[i].fromWalletId, transfers[i].toWalletId}

\* a wallet holding a balance was refused
C34_WitnessRefused == last.op = "deleteWallet" /\ last.status = 400

\* C37: every inactive wallet has balance zero.
C37_InactiveIsEmpty ==
  \A w \in WalletIds : ~wallets[w].isActive => wallets[w].balance = 0

\* deleteWallet alone never leaves an inactive wallet with a balance
C37_DeleteLeavesEmpty ==
  (last.op = "deleteWallet" /\ last.status = 204) => wallets[last.id].balance = 0

\* a wallet that was inactive before the last request has the balance it had
C37_InactiveKeepsBalance ==
  \A w \in WalletIds : ~Pre.wallets[w].isActive => wallets[w].balance = PreBalance(w)

\* ------------------------------------------- claims on deletes in flight
\* two delete requests on the same paid entry
C33_Case ==
  /\ AllDone
  /\ RaceOps = {"deleteTransaction"}
  /\ procs["p1"].req.id = procs["p2"].req.id
  /\ procs["p1"].req.id \in DOMAIN started.entries
  /\ RaceEntry.isPaid

\* C33: when two delete requests in flight on the same paid entry are both done,
\* the entry is gone and its wallet has given back its contribution exactly once,
\* in whatever order the two read and wrote; when both had read before either
\* wrote, one was answered 204 and the other, finding the record gone, rolled
\* back and was answered 500.
C33_ReversedOnce ==
  C33_Case =>
    /\ procs["p1"].req.id \notin DOMAIN entries
    /\ \A w \in WalletIds :
          wallets[w].balance =
            started.wallets[w].balance
            - (IF w = RaceEntry.walletId THEN contribution(RaceEntry) ELSE 0)
    /\ ReadTogether => {procs[p].status : p \in Procs} = {204, 500}

\* both delete requests had read the paid entry before either wrote
C33_Witness == C33_Case /\ ReadTogether

\* ----------------------------------------------------- claims on transfers
\* C38 as stated: with transfers created and deleted one after the other and no
\* entries, no wallet has a balance below zero.
C38_NeverNegative == \A w \in WalletIds : wallets[w].balance >= 0

\* C38: no createTransfer takes a balance below zero; a balance goes below zero
\* only by a deleteTransfer, only on the destination wallet of the transfer
\* deleted, and only when that wallet held less than the transfer's amount.
C38_OnlyTakingBackOverdraws ==
  \A w \in WalletIds :
     (wallets[w].balance < 0 /\ PreBalance(w) >= 0) =>
       /\ last.op = "deleteTransfer" /\ last.status = 204
       /\ w = Pre.transfers[last.id].toWalletId
       /\ PreBalance(w) < Pre.transfers[last.id].amount
       /\ wallets[w].balance = PreBalance(w) - Pre.transfers[last.id].amount

\* a transfer was taken back after its destination had sent the money on
C38_Witness ==
  /\ last.op = "deleteTransfer" /\ last.status = 204
  /\ wallets[Pre.transfers[last.id].toWalletId].balance < 0
  /\ PreBalance(Pre.transfers[last.id].toWalletId) >= 0

\* ------------------------------------------------- claims on password reset
\* the request of p changed a password with the token it carried
C35_Changed(p) == procs[p].pc = "done" /\ procs[p].status = 200

\* C35: no two resetPassword requests, one after the other or in flight
\* together, change a password with the same token.
C35_TokenUsedOnce ==
  \A p, q \in Procs :
     (p # q /\ C35_Changed(p) /\ C35_Changed(q)) => procs[p].req.token # procs[q].req.token

\* a request that read the token after another had used it is refused and
\* changes nothing
C35_UsedThenRefused ==
  \A p \in Procs :
     (procs[p].pc = "done" /\ \E row \in procs[p].snap : row.usedAt # NullDate) =>
       procs[p].status = 400 /\ procs[p].after = procs[p].before

\* a request came with a token that had been used
C35_UsedThenRefusedWitness ==
  \E p \in Procs : procs[p].pc = "done" /\ \E row \in procs[p].snap : row.usedAt # NullDate

====
